---- MODULE Spec2Model ----
(***************************************************************************)
(* Model of the intake / resolution / consolidation pipeline of Leonie:    *)
(*   - DocumentOrchestrator (document_orchestrator.py) over DriveManager   *)
(*     (drive.py) and the pieces_dossier table (utils/db.py),              *)
(*   - ClientIdentifier (client_identifier.py),                            *)
(*   - EmailAgent.process_incoming_email (email_agent.py),                 *)
(*   - SmtpService.send_email (smtp.py).                                   *)
(* Python strings that the code transforms (upper, title, replace) are     *)
(* sequences of one-character strings; the accented letters are written    *)
(* "e_grave", "e_acute", "E_GRAVE", "E_ACUTE".                             *)
(***************************************************************************)
EXTENDS Integers, Sequences, FiniteSets, TLC

VARIABLES
    courtiers,   \* table courtiers: sequence of rows, id = index
    clients,     \* table clients: sequence of rows, id = index
    folders,     \* Drive folders: sequence of [parent, name], id = index
    files,       \* Drive files: sequence of [folder, name, pages], id = index
    pieces,      \* table pieces_dossier: sequence of rows, id = index
    contexts,    \* table dossier_context: sequence of [client_id, summary, stamp]
    outbox,      \* what SmtpService handed to the mail server, oldest first
    last,        \* the operation that ran last: its inputs' digest and its outcome
    scen         \* observer of two successive single-attachment messages of one type

vars == <<courtiers, clients, folders, files, pieces, contexts, outbox, last, scen>>

\* ------------------------------------------------------------------ bounds
MaxFiles  == 2      \* Drive files in the model
MaxPages  == 2      \* pages of one master file
MaxPieces == 2      \* rows of pieces_dossier
MaxClients == 2     \* rows of clients
MaxOutbox == 1      \* messages handed to the mail server

\* ------------------------------------------------- Python None, by type
NoId  == 0        \* None where the code expects an id (ids are 1, 2, ...)
NoStr == <<>>     \* None where the code expects a str

\* ------------------------------------------------------- Python str methods
Lowers == <<"a","b","c","d","e","f","g","h","i","j","k","l","m","n","o","p","q","r","s","t","u","v","w","x","y","z","e_grave","e_acute">>
Uppers == <<"A","B","C","D","E","F","G","H","I","J","K","L","M","N","O","P","Q","R","S","T","U","V","W","X","Y","Z","E_GRAVE","E_ACUTE">>

IsLowerCh(c) == \E i \in 1..Len(Lowers) : Lowers[i] = c
IsUpperCh(c) == \E i \in 1..Len(Uppers) : Uppers[i] = c
IsCased(c)   == IsLowerCh(c) \/ IsUpperCh(c)
UpperCh(c) == IF IsLowerCh(c) THEN Uppers[CHOOSE i \in 1..Len(Lowers) : Lowers[i] = c] ELSE c
LowerCh(c) == IF IsUpperCh(c) THEN Lowers[CHOOSE i \in 1..Len(Uppers) : Uppers[i] = c] ELSE c

\* str.upper(), str.lower()
str_upper(s) == [i \in 1..Len(s) |-> UpperCh(s[i])]
str_lower(s) == [i \in 1..Len(s) |-> LowerCh(s[i])]

\* str.title(): a cased character is upper-cased when the character before it
\* is not cased, lower-cased otherwise
str_title(s) ==
    [i \in 1..Len(s) |->
        IF i > 1 /\ IsCased(s[i-1]) THEN LowerCh(s[i]) ELSE UpperCh(s[i])]

\* str.replace(old, new) for a one-character old and a string new
RECURSIVE str_replace(_, _, _)
str_replace(s, old, new) ==
    IF s = <<>> THEN <<>>
    ELSE (IF Head(s) = old THEN new ELSE <<Head(s)>>) \o str_replace(Tail(s), old, new)

SPACE == " "
APOS  == "'"
DQUOTE == "dq"
USCORE == <<"_">>

\* ------------------------------------------------- document type vocabulary
CNI              == <<"C","N","I">>
CNI_RECTO        == <<"C","N","I","_","R","E","C","T","O">>
CNI_VERSO        == <<"C","N","I","_","V","E","R","S","O">>
CNI_COMPLETE     == <<"C","N","I","_","C","O","M","P","L","E","T","E">>
BULLETIN_SALAIRE == <<"B","U","L","L","E","T","I","N","_","S","A","L","A","I","R","E">>
AVIS_IMPOT       == <<"A","V","I","S","_","I","M","P","O","T">>
RELEVE_BANCAIRE  == <<"R","E","L","E","V","E","_","B","A","N","C","A","I","R","E">>
KBIS             == <<"K","B","I","S">>
LIVRET_FAMILLE   == <<"L","I","V","R","E","T","_","F","A","M","I","L","L","E">>
AUTRE_DOCUMENT   == <<"A","U","T","R","E","_","D","O","C","U","M","E","N","T">>
INCONNU          == <<"I","N","C","O","N","N","U">>

\* DocumentOrchestrator.__init__: self.legacy_mapping
legacy_mapping ==
    (CNI :> <<"P","i","e_grave","c","e"," ","d","'","i","d","e","n","t","i","t","e_acute">>)
 @@ (BULLETIN_SALAIRE :> <<"B","u","l","l","e","t","i","n","s"," ","d","e"," ","s","a","l","a","i","r","e">>)
 @@ (AVIS_IMPOT :> <<"A","v","i","s"," ","d","'","i","m","p","o","s","i","t","i","o","n">>)
 @@ (RELEVE_BANCAIRE :> <<"D","e","r","n","i","e","r"," ","r","e","l","e","v","e_acute"," ","d","e"," ","c","o","m","p","t","e">>)
 @@ (KBIS :> <<"K","b","i","s">>)
 @@ (LIVRET_FAMILLE :> <<"L","i","v","r","e","t"," ","d","e"," ","f","a","m","i","l","l","e">>)

\* _generate_master_name: pretty_names
pretty_names ==
    (CNI :> <<"C","N","I">>)
 @@ (BULLETIN_SALAIRE :> <<"B","u","l","l","e","t","i","n","_","S","a","l","a","i","r","e">>)
 @@ (AVIS_IMPOT :> <<"A","v","i","s","_","I","m","p","o","t">>)
 @@ (RELEVE_BANCAIRE :> <<"R","e","l","e","v","e","s","_","B","a","n","c","a","i","r","e","s">>)
 @@ (KBIS :> <<"K","B","I","S">>)
 @@ (LIVRET_FAMILLE :> <<"L","i","v","r","e","t","_","F","a","m","i","l","l","e">>)
 @@ (AUTRE_DOCUMENT :> <<"D","o","c","u","m","e","n","t","s","_","D","i","v","e","r","s">>)

\* rows of table types_pieces (nom_piece, id = index)
types_pieces ==
    << <<"P","i","e_grave","c","e"," ","d","'","i","d","e","n","t","i","t","e_acute">>,
       <<"A","v","i","s"," ","d","'","i","m","p","o","s","i","t","i","o","n">> >>

\* the key normalisation shared by _load_known_types and
\* _resolve_type_id_from_master: upper(), " " -> "_", "'" removed
NormKey(s) == str_replace(str_replace(str_upper(s), SPACE, USCORE), APOS, <<>>)

\* _load_known_types: { normalised nom_piece : id }; a later row of the same
\* key overwrites an earlier one
known_types ==
    [k \in {NormKey(types_pieces[i]) : i \in 1..Len(types_pieces)} |->
        CHOOSE i \in 1..Len(types_pieces) :
            /\ NormKey(types_pieces[i]) = k
            /\ \A j \in 1..Len(types_pieces) : NormKey(types_pieces[j]) = k => j <= i]

\* _resolve_type_id_from_master
resolve_type_id_from_master(master_type) ==
    LET key == NormKey(master_type) IN
    IF key \in DOMAIN known_types THEN known_types[key]
    ELSE IF master_type \in DOMAIN legacy_mapping
            /\ NormKey(legacy_mapping[master_type]) \in DOMAIN known_types
         THEN known_types[NormKey(legacy_mapping[master_type])]
         ELSE NoId

\* _get_master_type
get_master_type(raw_type) ==
    IF raw_type \in {CNI_RECTO, CNI_VERSO, CNI_COMPLETE} THEN CNI ELSE raw_type

PDF_EXT == <<".","p","d","f">>

\* _generate_master_name (client is a row of table clients)
generate_master_name(master_type, client) ==
    LET client_str == str_replace(str_upper(client.nom \o USCORE \o client.prenom), SPACE, USCORE)
        nice_type  == IF master_type \in DOMAIN pretty_names
                      THEN pretty_names[master_type]
                      ELSE str_replace(str_replace(str_replace(str_title(master_type),
                                SPACE, USCORE), APOS, <<>>), DQUOTE, <<>>)
    IN  nice_type \o USCORE \o client_str \o PDF_EXT

\* the types the oracle answers in the model: catalog keys, legacy keys and an
\* ad-hoc nature
AVIS_DIMPOSITION == <<"A","V","I","S","_","D","I","M","P","O","S","I","T","I","O","N">>
Avis_Impot       == <<"A","v","i","s"," ","I","m","p","o","t">>
MasterTypes == {CNI, AVIS_IMPOT, AVIS_DIMPOSITION, Avis_Impot, AUTRE_DOCUMENT, INCONNU}

\* the names of the cases of the model
DOE == <<"D","o","e">>
AL  == <<"A","l">>
BO  == <<"B","o">>
CaseNames == {<<DOE, AL>>, <<DOE, BO>>, <<DOE, <<>> >>}

\* _resolve_type_id_from_master and _generate_master_name over these, computed once
type_id_of == [mt \in MasterTypes |-> resolve_type_id_from_master(mt)]
master_name_of ==
    [mt \in MasterTypes, nm \in CaseNames |->
        generate_master_name(mt, [nom |-> nm[1], prenom |-> nm[2]])]
master_name(mt, client) == master_name_of[mt, <<client.nom, client.prenom>>]


\* ------------------------------------------------------ file names, paths
\* code-point order of the characters used in file names
CharOrder ==
    <<".">> \o SubSeq(Uppers, 1, 26) \o <<"_">> \o SubSeq(Lowers, 1, 26)
        \o <<"E_GRAVE", "E_ACUTE", "e_grave", "e_acute">>
Code(c) == CHOOSE i \in 1..Len(CharOrder) : CharOrder[i] = c

\* Python's < on str
RECURSIVE StrLess(_, _)
StrLess(a, b) ==
    IF b = <<>> THEN FALSE
    ELSE IF a = <<>> THEN TRUE
    ELSE IF Head(a) = Head(b) THEN StrLess(Tail(a), Tail(b))
    ELSE Code(Head(a)) < Code(Head(b))

\* list.sort() on a list of str
RECURSIVE InsertSorted(_, _)
InsertSorted(x, s) ==
    IF s = <<>> THEN <<x>>
    ELSE IF StrLess(x, Head(s)) THEN <<x>> \o s
    ELSE <<Head(s)>> \o InsertSorted(x, Tail(s))
RECURSIVE list_sort(_)
list_sort(s) == IF s = <<>> THEN <<>> ELSE InsertSorted(s[Len(s)], list_sort(SubSeq(s, 1, Len(s) - 1)))

\* Path.suffix.lower(): from the last "." on
RECURSIVE path_suffix(_)
path_suffix(fn) ==
    IF fn = <<>> THEN <<>>
    ELSE IF \E i \in 2..Len(fn) : fn[i] = "." THEN path_suffix(Tail(fn))
    ELSE IF Head(fn) = "." THEN str_lower(fn) ELSE <<>>

IMAGE_EXTS == { <<".","j","p","g">>, <<".","p","n","g">> }

\* ------------------------------------------------------------ Drive (drive.py)
\* DriveManager.find_file_by_name: the id of files[0] of the listing of the
\* files of that name in the folder, None when there is none and None when the
\* lookup raises. The listing carries no orderBy: with several files of the
\* name either end of it can come first (pickLast).
find_file_by_name(fs, filename, folder_id, lookup_ok, pickLast) ==
    LET hits == {i \in 1..Len(fs) : fs[i].name = filename /\ fs[i].folder = folder_id} IN
    IF ~lookup_ok \/ hits = {} THEN NoId
    ELSE IF pickLast THEN CHOOSE i \in hits : \A j \in hits : j <= i
    ELSE CHOOSE i \in hits : \A j \in hits : i <= j

\* DriveManager.upload_file: a new file, whatever files of that name exist
upload_file(fs, pages, folder_id, filename) ==
    Append(fs, [folder |-> folder_id, name |-> filename, pages |-> pages])

\* DriveManager.update_file: same id, new content
update_file(fs, file_id, pages) == [fs EXCEPT ![file_id].pages = pages]

\* a download that brings back an empty document, for comparison
download_file_empty(fs, file_id) == <<>>

\* DriveManager.download_file: the content of the file
download_file(fs, file_id) == fs[file_id].pages

\* a faulty merge, for comparison: only the last PDF of the list survives
merge_pdfs_last_only(pdfs) == IF pdfs = <<>> THEN <<>> ELSE pdfs[Len(pdfs)]

\* DocumentProcessor.merge_pdfs, normal mode: the pages of each PDF in list order
RECURSIVE merge_pdfs(_)
merge_pdfs(pdfs) == IF pdfs = <<>> THEN <<>> ELSE Head(pdfs) \o merge_pdfs(Tail(pdfs))

\* DocumentProcessor.calculate_file_hash (SHA-256 of the content)
calculate_file_hash(content) == <<"sha256", content>>

\* ------------------------------------------------ pieces_dossier (utils/db.py)
\* get_pieces_by_client: the ids of the rows of the client, in the order the
\* select returns them (no ORDER BY: table order, or the reverse of it)
get_pieces_by_client(pcs, client_id, rev) ==
    LET ids == SelectSeq([i \in 1..Len(pcs) |-> i], LAMBDA i : pcs[i].client_id = client_id) IN
    IF rev THEN [k \in 1..Len(ids) |-> ids[Len(ids) + 1 - k]] ELSE ids

\* check_duplicate_piece
check_duplicate_piece(pcs, fichier_hash, client_id) ==
    LET hits == {i \in 1..Len(pcs) : pcs[i].fichier_hash = fichier_hash /\ pcs[i].client_id = client_id} IN
    IF hits = {} THEN NoId ELSE CHOOSE i \in hits : \A j \in hits : i <= j

\* _register_in_database, the loop over existing_pieces: does row p match?
piece_matches(p, type_id, master_type, file_id) ==
    \/ p.fichier_drive_id = file_id
    \/ (type_id # NoId /\ p.type_piece_id = type_id)
    \/ (type_id = NoId /\ p.type_piece_id = NoId /\ p.nature = master_type)

\* _register_in_database: <<pieces afterwards, id of the row written or None>>.
\* The update sends client_id, statut, fichier_drive_id, date_reception and
\* metadata, and type_piece_id only for a catalog type; the create sends no
\* fichier_hash. A database error is caught and answered by None (NoId).
register_in_database(pcs, client_id, master_type, file_id, db_ok, rev) ==
    LET type_id  == type_id_of[master_type]
        existing == get_pieces_by_client(pcs, client_id, rev)
        hits     == {k \in 1..Len(existing) :
                        piece_matches(pcs[existing[k]], type_id, master_type, file_id)}
        target   == IF hits = {} THEN NoId
                    ELSE existing[CHOOSE k \in hits : \A j \in hits : k <= j]
        nature   == IF type_id = NoId /\ master_type \notin {AUTRE_DOCUMENT, INCONNU}
                    THEN master_type ELSE NoStr
    IN
    IF ~db_ok THEN <<pcs, NoId>>
    ELSE IF target # NoId
    THEN << [pcs EXCEPT ![target] =
                [@ EXCEPT !.client_id = client_id,
                          !.fichier_drive_id = file_id,
                          !.nature = nature,
                          !.type_piece_id = IF type_id # NoId THEN type_id ELSE @]],
            target >>
    ELSE << Append(pcs, [client_id |-> client_id, type_piece_id |-> type_id,
                         fichier_drive_id |-> file_id, nature |-> nature,
                         fichier_hash |-> NoStr]),
            Len(pcs) + 1 >>


\* ------------------------------------------------------------ attachments
\* attachments of inbound messages: filename, content (pages), and the type
\* MistralService.analyze_document_nature answers for it
P1 == <<"p1">>
P2 == <<"p2">>
CNI_PDF  == <<"c","n","i",".","p","d","f">>
AVIS_PDF == <<"a","v","i","s",".","p","d","f">>
SCAN_JPG == <<"s","c","a","n",".","j","p","g">>
NOTE_XYZ == <<"n","o","t","e",".","x","y","z">>

Att(fn, content, raw) == [filename |-> fn, content |-> content, raw |-> raw]
A_AVIS   == Att(AVIS_PDF, P1, AVIS_IMPOT)          \* legacy key of a catalog type
A_AVIS_C == Att(AVIS_PDF, P1, AVIS_DIMPOSITION)    \* catalog key of the same type
A_AVIS_N == Att(AVIS_PDF, P1, Avis_Impot)          \* an ad-hoc nature
A_CNI    == Att(CNI_PDF,  P1, CNI_RECTO)
A_SCAN   == Att(SCAN_JPG, P2, AVIS_IMPOT)          \* an image
A_NOTE   == Att(NOTE_XYZ, P1, AUTRE_DOCUMENT)      \* a format convert_to_pdf rejects
AttPool  == {A_AVIS, A_AVIS_C, A_AVIS_N, A_CNI, A_SCAN, A_NOTE}

\* the attachment lists of a message: one attachment, or two (two types, one
\* type twice under one filename, a PDF and an image of one type in both
\* orders, a rejected format beside an accepted one, a legacy key beside an
\* ad-hoc nature)
AttLists ==
    { <<a>> : a \in AttPool } \cup
    { <<A_AVIS, A_CNI>>, <<A_CNI, A_AVIS>>, <<A_AVIS_N, A_AVIS_C>>, <<A_AVIS, A_AVIS>>,
      <<A_AVIS, A_SCAN>>, <<A_SCAN, A_AVIS>>, <<A_NOTE, A_CNI>>, <<A_CNI, A_NOTE>>,
      <<A_SCAN, A_AVIS_N>> }

\* ----------------------------- DocumentOrchestrator (document_orchestrator.py)
\* What can go wrong in the consolidation of one group (one per call and group):
\*   find        find_file_by_name: the listing raises, None is returned
\*   download    download_file raises      merge   merge_pdfs(master, new) raises
\*   update      update_file raises        upload  upload_file raises
\*   db          a pieces_dossier query raises inside _register_in_database
\*   convert     _convert_image_to_pdf fails and returns None
\*   local_merge merge_pdfs of the group's files raises
\* and, before the groups exist ("analyze", no group): the write of a temp
\* file or MistralService.analyze_document_nature raises in the first loop
FaultKinds == {"none", "find", "download", "merge", "update", "upload", "db",
               "convert", "local_merge"}

\* the temp directory after the first loop of process_attachments: every
\* attachment was written to temp_dir / filename, a later one over an earlier
\* one of the same filename
temp_read(atts, path) ==
    LET hits == {i \in 1..Len(atts) : atts[i].filename = path} IN
    atts[CHOOSE i \in hits : \A j \in hits : j <= i].content

CONVERTED == <<"_","c","o","n","v","e","r","t","e","d",".","p","d","f">>
\* Path.stem
path_stem(fn) == SubSeq(fn, 1, Len(fn) - Len(path_suffix(fn)))

\* DocumentProcessor.convert_to_pdf on each path of the group, in order:
\* [raise, pdfs], pdfs the list of [path, pages] of the PDFs obtained
RECURSIVE convert_all(_, _, _)
convert_all(paths, atts, fk) ==
    IF paths = <<>> THEN [raise |-> FALSE, pdfs |-> <<>>]
    ELSE LET p    == Head(paths)
             ext  == path_suffix(p)
             rest == convert_all(Tail(paths), atts, fk)
         IN
         IF ext = PDF_EXT
         THEN [rest EXCEPT !.pdfs = <<[path |-> p, pages |-> temp_read(atts, p)]>> \o @]
         ELSE IF ext \in IMAGE_EXTS
         THEN IF fk = "convert" THEN rest
              ELSE [rest EXCEPT !.pdfs =
                      <<[path |-> path_stem(p) \o CONVERTED, pages |-> temp_read(atts, p)]>> \o @]
         ELSE [raise |-> TRUE, pdfs |-> <<>>]      \* ValueError: format non supporte

\* the pages behind a path of the list of PDFs
pdf_pages(pdfs, path) ==
    LET hits == {i \in 1..Len(pdfs) : pdfs[i].path = path} IN
    pdfs[CHOOSE i \in hits : \A j \in hits : j <= i].pages

\* _consolidate_local_files: [kind, pages]; kind "raise" (an exception leaves
\* the method), "none" (None is returned) or "pdf"
consolidate_local_files(paths, atts, fk) ==
    LET conv   == convert_all(paths, atts, fk)
        sorted == list_sort([i \in 1..Len(conv.pdfs) |-> conv.pdfs[i].path])
    IN
    IF conv.raise THEN [kind |-> "raise", pages |-> <<>>]
    ELSE IF conv.pdfs = <<>> THEN [kind |-> "none", pages |-> <<>>]
    ELSE IF Len(conv.pdfs) = 1 THEN [kind |-> "pdf", pages |-> conv.pdfs[1].pages]
    ELSE IF fk = "local_merge" THEN [kind |-> "pdf", pages |-> pdf_pages(conv.pdfs, sorted[1])]
    ELSE [kind |-> "pdf",
          pages |-> merge_pdfs([i \in 1..Len(sorted) |-> pdf_pages(conv.pdfs, sorted[i])])]

\* process_attachments, "1. Regroupement par Type Maitre": the groups, in the
\* order of the first attachment of each type, each the list of temp paths
RECURSIVE group_attachments(_, _)
group_attachments(atts, grouped) ==
    IF atts = <<>> THEN grouped
    ELSE LET mt   == get_master_type(Head(atts).raw)
             hits == {i \in 1..Len(grouped) : grouped[i].type = mt}
         IN group_attachments(Tail(atts),
              IF hits = {}
              THEN Append(grouped, [type |-> mt, paths |-> <<Head(atts).filename>>])
              ELSE LET i == CHOOSE i \in hits : TRUE IN
                   [grouped EXCEPT ![i].paths = Append(@, Head(atts).filename)])

\* the grouping and the local consolidation depend on the attachment list
\* alone: computed once per list of the model
groups_of == [atts \in AttLists |-> group_attachments(atts, <<>>)]
local_of ==
    [atts \in AttLists, fk \in {"none", "convert", "local_merge"} |->
        [k \in 1..Len(groups_of[atts]) |->
            consolidate_local_files(groups_of[atts][k].paths, atts, fk)]]
consolidated(atts, k, fk) ==
    local_of[atts, IF fk \in {"convert", "local_merge"} THEN fk ELSE "none"][k]

\* process_attachments, the body of "for master_type, paths in grouped.items()"
\* for one group; st is [files, pieces, processed, over]. An exception raised
\* in the try is caught and logged: the state is what the calls before it left.
process_group(st, client_id, client, g, k, atts, fk, pickLast, rev) ==
    LET local      == consolidated(atts, k, fk)
        final_name == master_name(g.type, client)
        folder_id  == client.dossier_drive_id
        existing   == find_file_by_name(st.files, final_name, folder_id, fk # "find", pickLast)
        merged     == merge_pdfs(<<download_file(st.files, existing), local.pages>>)
        files2     == IF existing # NoId THEN update_file(st.files, existing, merged)
                      ELSE upload_file(st.files, local.pages, folder_id, final_name)
        file_id    == IF existing # NoId THEN existing ELSE Len(st.files) + 1
        reg        == register_in_database(st.pieces, client_id, g.type, file_id, fk # "db", rev)
    IN
    IF local.kind # "pdf" THEN st
    ELSE IF existing # NoId /\ fk \in {"download", "merge", "update"} THEN st
    ELSE IF existing = NoId /\ fk = "upload" THEN st
    ELSE [raise     |-> st.raise,
          files     |-> files2,
          pieces    |-> reg[1],
          processed |-> Append(st.processed,
                          [nfiles |-> Len(g.paths), type |-> g.type,
                           file_id |-> file_id, db_id |-> reg[2]]),
          over      |-> \/ st.over
                        \/ Len(files2) > MaxFiles
                        \/ Len(files2[file_id].pages) > MaxPages
                        \/ Len(reg[1]) > MaxPieces]

\* the loop over the groups, left at the first group that appends no entry
RECURSIVE process_groups_until_failure(_, _, _, _, _, _, _, _, _)
process_groups_until_failure(st, client_id, client, groups, k, atts, fault, pickLast, rev) ==
    IF k > Len(groups) THEN st
    ELSE LET st2 == process_group(st, client_id, client, groups[k], k, atts,
                                  IF fault.group = k THEN fault.kind ELSE "none", pickLast, rev)
         IN IF Len(st2.processed) = Len(st.processed) THEN st2
            ELSE process_groups_until_failure(st2, client_id, client, groups, k + 1, atts,
                                              fault, pickLast, rev)

\* process_attachments, "for master_type, paths in grouped.items()": every
\* group in turn, whatever became of the groups before it
RECURSIVE process_groups(_, _, _, _, _, _, _, _, _)
process_groups(st, client_id, client, groups, k, atts, fault, pickLast, rev) ==
    IF k > Len(groups) THEN st
    ELSE process_groups(
            process_group(st, client_id, client, groups[k], k, atts,
                          IF fault.group = k THEN fault.kind ELSE "none", pickLast, rev),
            client_id, client, groups, k + 1, atts, fault, pickLast, rev)

\* DocumentOrchestrator.process_attachments(attachments, client, courtier_id,
\* mistral_service): [raise, files, pieces, processed, over]; processed is the
\* list returned, raise says that an exception left the method instead. A
\* client without dossier_drive_id: logged, [] returned. The first loop is in
\* no try: what raises there leaves the method.
process_attachments(fs, pcs, client_id, client, atts, fault, pickLast, rev) ==
    LET st0 == [raise |-> FALSE, files |-> fs, pieces |-> pcs, processed |-> <<>>,
                over |-> FALSE] IN
    IF client.dossier_drive_id = NoId THEN st0
    ELSE IF fault.kind = "analyze" THEN [st0 EXCEPT !.raise = TRUE]
    ELSE process_groups(st0, client_id, client, groups_of[atts], 1,
                        atts, fault, pickLast, rev)


\* ------------------------------------------------------------- seeded data
BROKER1 == <<"b","@","x">>
BROKER2 == <<"k","@","x">>      \* a second active broker
BROKER3 == <<"z","@","x">>      \* a broker whose account is not active
CUST    == <<"c","@","y">>

\* str.strip()
RECURSIVE str_lstrip(_)
str_lstrip(s) == IF s # <<>> /\ Head(s) = SPACE THEN str_lstrip(Tail(s)) ELSE s
RECURSIVE str_rstrip(_)
str_rstrip(s) == IF s # <<>> /\ s[Len(s)] = SPACE THEN str_rstrip(SubSeq(s, 1, Len(s) - 1)) ELSE s
str_strip(s) == str_lstrip(str_rstrip(s))

\* create_client_from_email_and_classification: client_folder_name
client_folder_name(client_nom, client_prenom) ==
    str_strip(<<"C","L","I","E","N","T","_">> \o client_nom \o USCORE \o client_prenom)

\* two active brokers with their root folders (folders 1 and 3), and a broker
\* whose account is not active
SeedCourtiers ==
    << [email |-> BROKER1, actif |-> TRUE,  dossier_drive_id |-> 1],
       [email |-> BROKER2, actif |-> TRUE,  dossier_drive_id |-> 3],
       [email |-> BROKER3, actif |-> FALSE, dossier_drive_id |-> NoId] >>

\* a case with its Drive folder (folder 2) and a case whose dossier_drive_id is NULL
SeedClients ==
    << [courtier_id |-> 1, nom |-> DOE, prenom |-> AL, email_principal |-> CUST,
        emails_secondaires |-> <<>>, dossier_drive_id |-> 2],
       [courtier_id |-> 1, nom |-> DOE, prenom |-> BO, email_principal |-> <<"d","@","y">>,
        emails_secondaires |-> <<>>, dossier_drive_id |-> NoId] >>

SeedFolders ==
    << [parent |-> NoId, name |-> <<"C","o","u","r","t","i","e","r","_","B">>],
       [parent |-> 1, name |-> client_folder_name(DOE, AL)],
       [parent |-> NoId, name |-> <<"C","o","u","r","t","i","e","r","_","K">>] >>

Faults(atts) ==
    { [group |-> 0, kind |-> "none"], [group |-> 0, kind |-> "analyze"] } \cup
    { [group |-> g, kind |-> k] :
        g \in 1..Len(groups_of[atts]), k \in FaultKinds \ {"none"} }

\* ------------------------------------------------ the consolidation, as a step
NoScen == [step |-> 0, client |-> NoId, type |-> NoStr, sum |-> 0]

\* the case has no master file of the type and no Document Record of the type
NoMasterYet(fs, pcs, client_id, client, mt) ==
    /\ \A i \in 1..Len(fs) :
          ~(fs[i].folder = client.dossier_drive_id /\ fs[i].name = master_name(mt, client))
    /\ \A i \in 1..Len(pcs) :
          pcs[i].client_id = client_id =>
             ~piece_matches(pcs[i], type_id_of[mt], mt, NoId)

\* every attachment of the list has the content hash of a Document Record of the case
AllDuplicates(pcs, client_id, atts) ==
    \A i \in 1..Len(atts) :
        check_duplicate_piece(pcs, calculate_file_hash(atts[i].content), client_id) # NoId

HasSameNameFiles ==
    \E i, j \in 1..Len(files) : i # j /\ files[i].name = files[j].name /\ files[i].folder = files[j].folder

\* the case's folder is empty and it has no Document Record, or it holds a
\* master file registered with the hash of its content
InitDocs ==
    /\ courtiers = SeedCourtiers
    /\ clients = SeedClients
    /\ folders = SeedFolders
    /\ \/ files = <<>> /\ pieces = <<>>
       \/ /\ files = << [folder |-> 2, name |-> master_name(AVIS_IMPOT, SeedClients[1]),
                         pages |-> P1] >>
          /\ pieces = << [client_id |-> 1, type_piece_id |-> type_id_of[AVIS_IMPOT],
                          fichier_drive_id |-> 1, nature |-> NoStr,
                          fichier_hash |-> calculate_file_hash(P1)] >>
    /\ contexts = <<>>
    /\ outbox = <<>>
    /\ last = [op |-> "init"]
    /\ scen = NoScen

NoFault == [group |-> 0, kind |-> "none"]

\* one call of process_attachments for case c that ended as r
ProcessAttachmentsReturns(c, atts, r) ==
    /\ ~r.over
    /\ files'  = r.files
    /\ pieces' = r.pieces
    /\ last'   = [op       |-> "process_attachments",
                  client   |-> c,
                  raised   |-> r.raise,
                  returned |-> Len(r.processed),
                  dupOnly  |-> AllDuplicates(pieces, c, atts),
                  changed  |-> (r.files # files \/ r.pieces # pieces)]
    /\ UNCHANGED <<courtiers, clients, folders, contexts, outbox>>

\* one call of process_attachments for case c
ProcessAttachments(c, atts, fault, pickLast, rev) ==
    ProcessAttachmentsReturns(c, atts,
        process_attachments(files, pieces, c, clients[c], atts, fault, pickLast, rev))

\* no storage or database call is made for a case without folder: nothing can fail
DocsInputs(c, atts) ==
    IF clients[c].dossier_drive_id = NoId THEN {NoFault} ELSE Faults(atts)

DocsStep ==
    \E c \in 1..Len(clients), atts \in AttLists :
      \E fault \in DocsInputs(c, atts),
         pickLast \in (IF HasSameNameFiles THEN BOOLEAN ELSE {FALSE}),
         rev \in (IF Len(pieces) > 1 THEN BOOLEAN ELSE {FALSE}) :
        /\ ProcessAttachments(c, atts, fault, pickLast, rev)
        /\ UNCHANGED scen

SpecDocs == InitDocs /\ [][DocsStep]_vars

\* one message whose attachments make two groups, observed: scen keeps the
\* attachments, what went wrong and the list process_attachments returned
TwoGroupLists == {atts \in AttLists : Len(groups_of[atts]) = 2}

GroupsObserved(c, atts, fault, r) ==
    [step |-> 0, client |-> c, type |-> NoStr, sum |-> 0,
     atts |-> atts, fault |-> fault, raised |-> r.raise, processed |-> r.processed]

GroupsStep ==
    \E c \in 1..Len(clients), atts \in TwoGroupLists :
      \E fault \in DocsInputs(c, atts),
         pickLast \in (IF HasSameNameFiles THEN BOOLEAN ELSE {FALSE}),
         rev \in (IF Len(pieces) > 1 THEN BOOLEAN ELSE {FALSE}) :
        /\ ProcessAttachments(c, atts, fault, pickLast, rev)
        /\ scen' = GroupsObserved(c, atts, fault,
                       process_attachments(files, pieces, c, clients[c], atts, fault,
                                           pickLast, rev))

SpecGroups == InitDocs /\ [][GroupsStep]_vars

\* two successive messages with one attachment each, observed: scen.step is 1
\* after a failure-free call that created the master file of a type the case
\* had neither file nor record of, 2 after the next call when it is
\* failure-free, for the same case and of the same type
Observe(c, atts, fault, returned) ==
    LET mt    == get_master_type(atts[1].raw)
        clean == fault.kind = "none" /\ returned = 1
    IN
    IF clean /\ NoMasterYet(files, pieces, c, clients[c], mt)
    THEN [step |-> 1, client |-> c, type |-> mt, sum |-> Len(atts[1].content)]
    ELSE IF clean /\ scen.step = 1 /\ scen.client = c /\ scen.type = mt
    THEN [step |-> 2, client |-> c, type |-> mt, sum |-> scen.sum + Len(atts[1].content)]
    ELSE NoScen

OneAttachmentStep ==
    \E c \in 1..Len(clients), a \in AttPool :
      \E fault \in DocsInputs(c, <<a>>),
         pickLast \in (IF HasSameNameFiles THEN BOOLEAN ELSE {FALSE}),
         rev \in (IF Len(pieces) > 1 THEN BOOLEAN ELSE {FALSE}) :
        /\ ProcessAttachments(c, <<a>>, fault, pickLast, rev)
        /\ scen' = Observe(c, <<a>>, fault, last'.returned)

SpecTwoMessages == InitDocs /\ [][OneAttachmentStep]_vars


\* ------------------------------------------- courtiers, clients (utils/db.py)
CUST_UP == <<"C","@","y">>      \* the customer's address as some mail clients write it
CUST2   == <<"d","@","y">>      \* another address of the customer
LEONIE  == <<"l","e","o","n","i","e","@","v","o","x","p","e","r","i","e","n","c","e",".","c","o","m">>
SystemAddresses ==
    { LEONIE,
      <<"c","o","n","t","a","c","t","@","v","o","x","p","e","r","i","e","n","c","e",".","c","o","m">>,
      <<"n","o","r","e","p","l","y","@","v","o","x","p","e","r","i","e","n","c","e",".","c","o","m">> }

SeqToSet(s) == {s[i] : i \in DOMAIN s}

\* str.lower() of an address, computed once for the addresses of the model
Addresses == {BROKER1, BROKER2, BROKER3, CUST, CUST_UP, CUST2} \cup SystemAddresses
lower_of == [a \in Addresses |-> str_lower(a)]
address_lower(a) == IF a \in Addresses THEN lower_of[a] ELSE str_lower(a)
\* response.data[0]
FirstIdx(S) == IF S = {} THEN NoId ELSE CHOOSE i \in S : \A j \in S : i <= j

\* get_courtier_by_email without its filter on actif
get_courtier_by_email_any_status(cs, email) ==
    FirstIdx({i \in DOMAIN cs : cs[i].email = email})

\* get_courtier_by_email: eq("email", email).eq("actif", True)
get_courtier_by_email(cs, email) ==
    FirstIdx({i \in DOMAIN cs : cs[i].email = email /\ cs[i].actif})

\* a lookup that answers the row after the one asked for
get_courtier_next_row(cs, courtier_id) ==
    IF courtier_id + 1 \in DOMAIN cs THEN courtier_id + 1 ELSE NoId

\* get_courtier_by_id
get_courtier_by_id(cs, courtier_id) == IF courtier_id \in DOMAIN cs THEN courtier_id ELSE NoId

\* get_client_by_email: eq("email_principal", email), and the courtier when given
get_client_by_email(cl, email, courtier_id) ==
    FirstIdx({i \in DOMAIN cl :
        /\ cl[i].email_principal = email
        /\ (courtier_id = NoId \/ cl[i].courtier_id = courtier_id)})

\* find_client_by_email_list: by primary address, in list order; then the
\* first case of the courtier one of whose secondary addresses is in the list
RECURSIVE first_by_principal(_, _, _)
first_by_principal(cl, emails, courtier_id) ==
    IF emails = <<>> THEN NoId
    ELSE LET c == get_client_by_email(cl, Head(emails), courtier_id) IN
         IF c # NoId THEN c ELSE first_by_principal(cl, Tail(emails), courtier_id)
find_client_by_email_list(cl, emails, courtier_id) ==
    LET c == first_by_principal(cl, emails, courtier_id) IN
    IF c # NoId THEN c
    ELSE FirstIdx({i \in DOMAIN cl :
            /\ cl[i].courtier_id = courtier_id
            /\ \E k \in DOMAIN emails : emails[k] \in SeqToSet(cl[i].emails_secondaires)})

\* add_secondary_email writing the record anew, the folder reference left out
add_secondary_email_rewriting_record(cl, client_id, email) ==
    IF client_id \notin DOMAIN cl THEN cl
    ELSE IF email \in SeqToSet(cl[client_id].emails_secondaires) THEN cl
    ELSE [cl EXCEPT ![client_id].emails_secondaires = Append(@, email),
                    ![client_id].dossier_drive_id = NoId]

\* add_secondary_email
add_secondary_email(cl, client_id, email) ==
    IF client_id \notin DOMAIN cl THEN cl
    ELSE IF email \in SeqToSet(cl[client_id].emails_secondaires) THEN cl
    ELSE [cl EXCEPT ![client_id].emails_secondaires = Append(@, email)]

\* create_client_record
create_client_record(cl, data) == Append(cl, data)

\* folder_exists writes the name between apostrophes into the query as it is:
\* with an apostrophe in the name the query is malformed and the listing raises
query_accepted(folder_name) == APOS \notin SeqToSet(folder_name)

\* DriveManager.folder_exists: the id of files[0] of the listing, None when
\* there is none and None when the listing raises
folder_exists(fds, folder_name, parent_folder_id, lookup_ok) ==
    IF ~lookup_ok \/ ~query_accepted(folder_name) THEN NoId
    ELSE FirstIdx({i \in DOMAIN fds :
            fds[i].name = folder_name /\ fds[i].parent = parent_folder_id})

\* DriveManager.create_folder
create_folder(fds, folder_name, parent_folder_id) ==
    Append(fds, [parent |-> parent_folder_id, name |-> folder_name])

\* DriveManager.get_or_create_folder: <<folders afterwards, id>>
get_or_create_folder(fds, folder_name, parent_folder_id, lookup_ok) ==
    LET existing_id == folder_exists(fds, folder_name, parent_folder_id, lookup_ok) IN
    IF existing_id # NoId THEN <<fds, existing_id>>
    ELSE <<create_folder(fds, folder_name, parent_folder_id), Len(fds) + 1>>

\* ------------------------------------ ClientIdentifier (client_identifier.py)
\* A message is [from, to, cc, body, attachments]; body is the list of the
\* addresses the patterns of extract_all_emails_from_message find in the text.
\* extract_all_emails_from_message: the set of the lower-cased addresses
extract_all_emails_from_message(msg) ==
    { address_lower(a) : a \in ({msg.from} \cup SeqToSet(msg.to) \cup SeqToSet(msg.cc)
                              \cup SeqToSet(msg.body)) \ {NoStr} }

\* excluded_emails, candidate_emails (the same in both methods)
excluded_emails(courtier) == {address_lower(courtier.email)} \cup SystemAddresses
candidate_emails(msg, courtier) ==
    extract_all_emails_from_message(msg) \ excluded_emails(courtier)

\* list(emails): a set has no order of its own, the list can come out in any
Orderings(S) ==
    { s \in [1..Cardinality(S) -> S] : \A i, j \in 1..Cardinality(S) : s[i] = s[j] => i = j }

\* identify_client_from_email, candidates being the list candidate_emails:
\* <<clients afterwards, the case found or None>>
identify_client_from_email(cl, candidates, courtier_id) ==
    LET client    == find_client_by_email_list(cl, candidates, courtier_id)
        principal == address_lower(cl[client].email_principal)
        secs      == {address_lower(e) : e \in SeqToSet(cl[client].emails_secondaires)}
        hits      == {k \in DOMAIN candidates : candidates[k] \in secs}
        matched   == IF principal \in SeqToSet(candidates) THEN principal
                     ELSE IF hits # {} THEN candidates[FirstIdx(hits)] ELSE NoStr
    IN
    IF client = NoId THEN <<cl, NoId>>
    ELSE IF matched # NoStr /\ matched # principal /\ matched \notin secs
    THEN <<add_secondary_email(cl, client, matched), client>>
    ELSE <<cl, client>>

TEMP_DOMAIN == <<"@","t","e","m","p",".","l","e","o","n","i","e",".","l","o","c","a","l">>
\* create_client_from_email_and_classification without its test of the
\* broker's dossier_drive_id: the folder is created under no parent
create_client_under_no_root(cl, fds, cs, candidates, courtier_id, cls, lookup_ok) ==
    LET folder == get_or_create_folder(fds,
                      client_folder_name(cls.client_nom, cls.client_prenom),
                      cs[courtier_id].dossier_drive_id, lookup_ok)
    IN
    IF cls.client_nom = NoStr
    THEN [raise |-> TRUE, clients |-> cl, folders |-> fds, client |-> NoId]
    ELSE [raise   |-> FALSE,
          clients |-> create_client_record(cl,
                        [courtier_id |-> courtier_id, nom |-> cls.client_nom,
                         prenom |-> cls.client_prenom,
                         email_principal |-> IF candidates # <<>> THEN candidates[1] ELSE TEMP_DOMAIN,
                         emails_secondaires |-> <<>>, dossier_drive_id |-> folder[2]]),
          folders |-> folder[1],
          client  |-> Len(cl) + 1]

\* create_client_from_email_and_classification: [raise, clients, folders, client]
create_client_from_email_and_classification(cl, fds, cs, candidates, courtier_id, cls, lookup_ok) ==
    LET courtier     == cs[courtier_id]
        client_email == IF candidates # <<>> THEN candidates[1]
                        ELSE str_lower((IF cls.client_prenom # NoStr THEN cls.client_prenom
                                        ELSE <<"c","l","i","e","n","t">>)
                                       \o <<".">> \o cls.client_nom \o TEMP_DOMAIN)
        folder       == get_or_create_folder(fds,
                            client_folder_name(cls.client_nom, cls.client_prenom),
                            courtier.dossier_drive_id, lookup_ok)
    IN
    IF cls.client_nom = NoStr \/ courtier.dossier_drive_id = NoId
    THEN [raise |-> TRUE, clients |-> cl, folders |-> fds, client |-> NoId]
    ELSE [raise   |-> FALSE,
          clients |-> create_client_record(cl,
                        [courtier_id |-> courtier_id, nom |-> cls.client_nom,
                         prenom |-> cls.client_prenom, email_principal |-> client_email,
                         emails_secondaires |-> <<>>, dossier_drive_id |-> folder[2]]),
          folders |-> folder[1],
          client  |-> Len(cl) + 1]

\* ---------------------------------------------------- workers/jobs.py
\* process_nouveau_dossier(courtier_id, email_data, classification):
\* [status, clients, folders, client]; status "exists", "success" or "raise"
process_nouveau_dossier(cl, fds, cs, courtier_id, candidates, cls, lookup_ok) ==
    LET courtier == get_courtier_by_id(cs, courtier_id)
        found    == identify_client_from_email(cl, candidates, courtier)
        made     == create_client_from_email_and_classification(
                        found[1], fds, cs, candidates, courtier, cls, lookup_ok)
    IN
    IF courtier = NoId
    THEN [status |-> "raise", clients |-> cl, folders |-> fds, client |-> NoId]
    ELSE IF found[2] # NoId
    THEN [status |-> "exists", clients |-> found[1], folders |-> fds, client |-> found[2]]
    ELSE IF made.raise
    THEN [status |-> "raise", clients |-> found[1], folders |-> fds, client |-> NoId]
    ELSE [status |-> "success", clients |-> made.clients, folders |-> made.folders,
          client |-> made.client]

\* ------------------------------------------------------ SmtpService (smtp.py)
ADMIN_EMAIL == <<"a","@","x">>

\* send_email: <<outbox afterwards, the bool returned>>. What reaches the mail
\* server is the envelope: sendmail(smtp_user, recipients, ...)
send_email(ob, to_email, cc_emails, bcc_emails, is_shadow_mode, shadow_recipient, smtp_ok) ==
    LET redirect_to == IF shadow_recipient # NoStr THEN shadow_recipient ELSE ADMIN_EMAIL
        to2         == IF is_shadow_mode THEN redirect_to ELSE to_email
        recipients  == <<to2>> \o cc_emails \o bcc_emails
    IN
    IF ~smtp_ok THEN <<ob, FALSE>>
    ELSE << Append(ob, [recipients |-> recipients, to |-> to2, cc |-> cc_emails,
                        shadow |-> is_shadow_mode, original_to |-> to_email]),
            TRUE >>

SendEmail(to_email, cc_emails, bcc_emails, is_shadow_mode, shadow_recipient, smtp_ok) ==
    LET r == send_email(outbox, to_email, cc_emails, bcc_emails, is_shadow_mode,
                        shadow_recipient, smtp_ok)
    IN
    /\ Len(r[1]) <= MaxOutbox
    /\ outbox' = r[1]
    /\ last' = [op |-> "send_email", to_email |-> to_email, is_shadow_mode |-> is_shadow_mode,
                shadow_recipient |-> shadow_recipient, returned |-> r[2]]
    /\ UNCHANGED <<courtiers, clients, folders, files, pieces, contexts, scen>>

SmtpStep ==
    \E to_email \in {CUST, CUST2, BROKER1},
       cc_emails \in {<<>>, <<CUST>>, <<BROKER2>>},
       bcc_emails \in {<<>>, <<CUST2>>},
       is_shadow_mode \in BOOLEAN,
       shadow_recipient \in {NoStr, BROKER1},
       smtp_ok \in BOOLEAN :
        SendEmail(to_email, cc_emails, bcc_emails, is_shadow_mode, shadow_recipient, smtp_ok)

InitSmtp ==
    /\ courtiers = SeedCourtiers
    /\ clients = <<SeedClients[1]>>
    /\ folders = SeedFolders
    /\ files = <<>>
    /\ pieces = <<>>
    /\ contexts = <<>>
    /\ outbox = <<>>
    /\ last = [op |-> "init"]
    /\ scen = NoScen

SpecSmtp == InitSmtp /\ [][SmtpStep]_vars

\* ------------------------------------------------ EmailAgent (email_agent.py)
\* the parameters create_client_from_email_and_classification accepts, and the
\* required parameters of DocumentOrchestrator.process_attachments after self
create_client_parameters == {"email", "courtier", "classification", "drive_manager"}
process_attachments_parameters == <<"attachments", "client", "courtier_id", "mistral_service">>
\* what process_incoming_email passes to them
agent_create_keywords == {"exclude_sender"}
agent_attachment_arguments == <<"email.attachments", "client", "courtier_id">>

\* create_dossier_context(client_id): a new, empty narrative for the case
create_dossier_context(ctxs, client_id) ==
    Append(ctxs, [client_id |-> client_id, summary |-> NoStr, last_update |-> 0])

\* the first of To + Cc that is an active broker (lines 76-81)
RECURSIVE recipient_courtier(_, _)
recipient_courtier(cs, recipients) ==
    IF recipients = <<>> THEN NoId
    ELSE LET c == get_courtier_by_email(cs, Head(recipients)) IN
         IF c # NoId THEN c ELSE recipient_courtier(cs, Tail(recipients))

\* process_incoming_email(email), cls being what classify_email answers:
\*   result   "True", "False", or "raise" (an exception leaves the method)
\*   trace    the orchestrator states entered, in order
\*   oracle   classify_email was called
\*   known    the case known when classify_email was called (None: none)
\*   client, courtier   the case and the broker at line 130 (None: not reached)
\* and the tables afterwards.
process_incoming_email(cl, fds, cs, ctxs, msg, cls, candidates, lookup_ok) ==
    LET client0   == get_client_by_email(cl, msg.from, NoId)
        sender    == get_courtier_by_email(cs, msg.from)
        courtier  == IF client0 # NoId THEN get_courtier_by_id(cs, cl[client0].courtier_id)
                     ELSE IF sender # NoId THEN sender
                     ELSE recipient_courtier(cs, msg.to \o msg.cc)
        is_new_client == client0 = NoId
        head      == <<"Start", "ResolveCase", "ResolveBroker">>
        out(result, trace, oracle, client, cl2, fds2, ctxs2) ==
            [result |-> result, trace |-> trace, oracle |-> oracle, known |-> client0,
             client |-> client, courtier |-> courtier,
             clients |-> cl2, folders |-> fds2, contexts |-> ctxs2]
        \* lines 113-119: the call passes a keyword the method does not accept
        made      == create_client_from_email_and_classification(
                        cl, fds, cs, candidates, courtier, cls, lookup_ok)
        created   == agent_create_keywords \subseteq create_client_parameters /\ ~made.raise
        client    == IF is_new_client THEN made.client ELSE client0
        cl2       == IF is_new_client THEN made.clients ELSE cl
        fds2      == IF is_new_client THEN made.folders ELSE fds
        ctxs2     == IF is_new_client THEN create_dossier_context(ctxs, made.client) ELSE ctxs
        mid       == head \o <<"Classify">> \o (IF is_new_client THEN <<"CreateCase">> ELSE <<>>)
    IN
    IF is_new_client /\ courtier = NoId
    THEN out("False", head \o <<"Abandoned">>, FALSE, NoId, cl, fds, ctxs)            \* line 88
    ELSE IF is_new_client /\ ~created
    THEN out("False", mid, TRUE, NoId, cl, fds, ctxs)                                  \* lines 125-127
    ELSE IF courtier = NoId
    THEN out("raise", mid, TRUE, NoId, cl2, fds2, ctxs2)                               \* line 131
    ELSE IF msg.attachments # <<>>
    \* line 135: process_attachments is called without mistral_service (and not
    \* awaited: were the call accepted, line 144 would iterate a coroutine)
    THEN out("raise", mid \o <<"ProcessAttachments">>, TRUE, client, cl2, fds2, ctxs2)
    \* line 143: processed_docs is bound only when there are attachments
    ELSE out("raise", mid \o <<"UpdateMemory">>, TRUE, client, cl2, fds2, ctxs2)

\* one call of process_incoming_email that ended as r
ProcessIncomingEmailReturns(msg, cls, r) ==
    /\ Len(r.clients) <= MaxClients
    /\ clients' = r.clients
    /\ folders' = r.folders
    /\ contexts' = r.contexts
    /\ last' = [op |-> "process_incoming_email",
                from |-> msg.from, to |-> msg.to, cc |-> msg.cc, body |-> msg.body,
                has_attachments |-> msg.attachments # <<>>,
                named |-> cls.client_nom # NoStr,
                sender_known |-> (\E i \in DOMAIN clients :
                                    clients[i].email_principal = msg.from),
                result |-> r.result, trace |-> r.trace, oracle |-> r.oracle,
                known |-> r.known, client |-> r.client, courtier |-> r.courtier,
                changed |-> (r.clients # clients \/ r.folders # folders \/ r.contexts # contexts)]
    /\ UNCHANGED <<courtiers, files, pieces, outbox, scen>>

ProcessIncomingEmail(msg, cls, candidates, lookup_ok) ==
    ProcessIncomingEmailReturns(msg, cls,
        process_incoming_email(clients, folders, courtiers, contexts, msg, cls,
                               candidates, lookup_ok))

\* the candidate list as process_incoming_email's creation would see it
AgentCandidates(msg) ==
    LET sender   == get_courtier_by_email(courtiers, msg.from)
        courtier == IF sender # NoId THEN sender
                    ELSE recipient_courtier(courtiers, msg.to \o msg.cc)
    IN IF courtier = NoId THEN {<<>>}
       ELSE Orderings(candidate_emails(msg, courtiers[courtier]))

Classifications == [client_nom : {NoStr, DOE}, client_prenom : {AL}]

AgentMessages ==
    [from : {BROKER1, BROKER3, CUST, CUST_UP},
     to   : {<<LEONIE>>, <<BROKER1>>, <<BROKER3>>},
     cc   : {<<>>, <<BROKER2>>},
     body : {<<>>, <<CUST>>},
     attachments : {<<>>, <<A_CNI>>}]

AgentStep ==
    \E msg \in AgentMessages, cls \in Classifications :
      \E candidates \in AgentCandidates(msg) :
        ProcessIncomingEmail(msg, cls, candidates, TRUE)

\* no case yet, or the case of customer Doe (primary address CUST) of broker 1
InitAgent ==
    /\ courtiers = SeedCourtiers
    /\ clients \in {<<>>, <<SeedClients[1]>>}
    /\ folders = SeedFolders
    /\ files = <<>>
    /\ pieces = <<>>
    /\ contexts = <<>>
    /\ outbox = <<>>
    /\ last = [op |-> "init"]
    /\ scen = NoScen

SpecAgent == InitAgent /\ [][AgentStep]_vars

\* process_nouveau_dossier as a step, for the broker the message is addressed to
ProcessNouveauDossierReturns(courtier_id, msg, cls, r) ==
    /\ Len(r.clients) <= MaxClients
    /\ clients' = r.clients
    /\ folders' = r.folders
    /\ last' = [op |-> "process_nouveau_dossier",
                from |-> msg.from, to |-> msg.to, cc |-> msg.cc, body |-> msg.body,
                named |-> cls.client_nom # NoStr,
                result |-> r.status, client |-> r.client, courtier |-> courtier_id,
                changed |-> (r.clients # clients \/ r.folders # folders)]
    /\ UNCHANGED <<courtiers, files, pieces, contexts, outbox, scen>>

ProcessNouveauDossier(courtier_id, msg, cls, candidates, lookup_ok) ==
    ProcessNouveauDossierReturns(courtier_id, msg, cls,
        process_nouveau_dossier(clients, folders, courtiers, courtier_id,
                                candidates, cls, lookup_ok))

\* messages that concern customer Doe of broker 1: sent by the customer, or
\* forwarded by a broker with the customer's address in the body
CaseMessages ==
    { m \in [from : {BROKER1, BROKER2, CUST, CUST_UP},
             to   : {<<BROKER1>>},
             cc   : {<<>>, <<BROKER2>>, <<CUST2>>},
             body : {<<>>, <<CUST>>},
             attachments : {<<>>}] :
        m.from \in {BROKER1, BROKER2} => m.body = <<CUST>> }

JobStep ==
    \E courtier_id \in {1}, msg \in CaseMessages, cls \in Classifications :
      \E candidates \in Orderings(candidate_emails(msg, courtiers[courtier_id])),
         lookup_ok \in BOOLEAN :
        ProcessNouveauDossier(courtier_id, msg, cls, candidates, lookup_ok)

AgentOnCaseStep ==
    \E msg \in CaseMessages, cls \in Classifications :
      \E candidates \in AgentCandidates(msg) :
        ProcessIncomingEmail(msg, cls, candidates, TRUE)

CasesStep == JobStep \/ AgentOnCaseStep

InitCases ==
    /\ courtiers = SeedCourtiers
    /\ clients = <<>>
    /\ folders = <<SeedFolders[1], SeedFolders[3]>>
    /\ files = <<>>
    /\ pieces = <<>>
    /\ contexts = <<>>
    /\ outbox = <<>>
    /\ last = [op |-> "init"]
    /\ scen = NoScen

SpecCases == InitCases /\ [][CasesStep]_vars

\* ------------------------------- jobs for a broker without root folder
MaxFolders == 5     \* folders of the storage

\* process_nouveau_dossier of src/app/workers/jobs.py (the job before the case
\* records): [status, folders, folder_id]; status "success" or "raise". The
\* broker's root folder is listed before the customer's folder is created
\* (drive_ok: the listing answers); no case record is written.
process_nouveau_dossier_legacy(fds, cs, courtier_id, cls, drive_ok, lookup_ok) ==
    LET courtier == get_courtier_by_id(cs, courtier_id)
        folder   == get_or_create_folder(fds,
                        <<"C","L","I","E","N","T","_">> \o cls.client_nom \o USCORE
                            \o cls.client_prenom,
                        cs[courtier].dossier_drive_id, lookup_ok)
    IN
    IF cls.client_nom = NoStr \/ cls.client_prenom = NoStr
    THEN [status |-> "raise", folders |-> fds, folder_id |-> NoId]      \* ValueError
    ELSE IF courtier = NoId
    THEN [status |-> "raise", folders |-> fds, folder_id |-> NoId]      \* ValueError
    ELSE IF cs[courtier].dossier_drive_id = NoId
    THEN [status |-> "raise", folders |-> fds, folder_id |-> NoId]      \* ValueError
    ELSE IF ~drive_ok
    THEN [status |-> "raise", folders |-> fds, folder_id |-> NoId]      \* RuntimeError
    ELSE [status |-> "success", folders |-> folder[1], folder_id |-> folder[2]]

ProcessNouveauDossierLegacy(courtier_id, cls, drive_ok, lookup_ok) ==
    LET r == process_nouveau_dossier_legacy(folders, courtiers, courtier_id, cls,
                                            drive_ok, lookup_ok)
    IN
    /\ Len(r.folders) <= MaxFolders
    /\ folders' = r.folders
    /\ last' = [op |-> "process_nouveau_dossier_legacy",
                named |-> cls.client_nom # NoStr,
                result |-> r.status, client |-> NoId, courtier |-> courtier_id,
                changed |-> r.folders # folders]
    /\ UNCHANGED <<courtiers, clients, files, pieces, contexts, outbox, scen>>

\* the job's classification: with or without the customer's names
JobClassifications == [client_nom : {NoStr, DOE}, client_prenom : {NoStr, AL}]

\* messages a job is given: sent by a customer to a broker
JobMessages ==
    [from : {CUST}, to : {<<BROKER1>>, <<BROKER3>>}, cc : {<<>>}, body : {<<>>},
     attachments : {<<>>}]

RootFolderStep ==
    \/ \E courtier_id \in DOMAIN courtiers, msg \in JobMessages, cls \in JobClassifications :
         \E candidates \in Orderings(candidate_emails(msg, courtiers[courtier_id])) :
           /\ ProcessNouveauDossier(courtier_id, msg, cls, candidates, TRUE)
           /\ Len(folders') <= MaxFolders
    \/ \E courtier_id \in DOMAIN courtiers, cls \in JobClassifications,
          drive_ok \in BOOLEAN, lookup_ok \in BOOLEAN :
           ProcessNouveauDossierLegacy(courtier_id, cls, drive_ok, lookup_ok)

InitRootFolder ==
    /\ courtiers = SeedCourtiers
    /\ clients = <<>>
    /\ folders = SeedFolders
    /\ files = <<>>
    /\ pieces = <<>>
    /\ contexts = <<>>
    /\ outbox = <<>>
    /\ last = [op |-> "init"]
    /\ scen = NoScen

SpecRootFolder == InitRootFolder /\ [][RootFolderStep]_vars

\* ------------------------------------- get_or_create_folder, repeated
ONEIL == <<"O", "'", "N", "e", "i", "l">>
FolderNames == { client_folder_name(DOE, AL), client_folder_name(DOE, BO),
                 client_folder_name(ONEIL, AL) }

\* one call of DriveManager.get_or_create_folder; scen keeps the call before it
GetOrCreateFolder(folder_name, parent_folder_id, lookup_ok) ==
    LET r == get_or_create_folder(folders, folder_name, parent_folder_id, lookup_ok) IN
    /\ Len(r[1]) <= MaxFolders
    /\ folders' = r[1]
    /\ last' = [op |-> "get_or_create_folder", name |-> folder_name,
                parent |-> parent_folder_id, lookup_ok |-> lookup_ok, id |-> r[2]]
    /\ scen' = [step |-> 0, client |-> NoId, type |-> NoStr, sum |-> 0,
                previous |-> last]
    /\ UNCHANGED <<courtiers, clients, files, pieces, contexts, outbox>>

FoldersStep ==
    \E folder_name \in FolderNames, parent_folder_id \in {1, 3}, lookup_ok \in BOOLEAN :
        GetOrCreateFolder(folder_name, parent_folder_id, lookup_ok)

SpecFolders == InitRootFolder /\ [][FoldersStep]_vars

\* --------------------------------- a message that names no customer
\* process_envoi_documents, "for i, attachment in enumerate(attachments)": each
\* attachment is uploaded under its own filename; what raises for one
\* attachment (fail: its index, 0 for none) is caught and the loop goes on.
\* <<files afterwards, number of pieces_traitees>>
RECURSIVE upload_attachments(_, _, _, _, _)
upload_attachments(fs, atts, i, folder_id, fail) ==
    IF i > Len(atts) THEN <<fs, 0>>
    ELSE IF i = fail THEN upload_attachments(fs, atts, i + 1, folder_id, fail)
    ELSE LET rest == upload_attachments(
                        upload_file(fs, atts[i].content, folder_id, atts[i].filename),
                        atts, i + 1, folder_id, fail)
         IN <<rest[1], rest[2] + 1>>

\* process_envoi_documents with the ValueError of the creation logged and the
\* attachments uploaded all the same, to no folder
\* process_envoi_documents from "client_folder_id = client.get('dossier_drive_id')"
\* on: the case is a row of cl2, each attachment was uploaded to its folder (up)
envoi_upload(cl2, fds2, matched, up) ==
    [status |-> "success", clients |-> cl2, folders |-> fds2, files |-> up[1],
     matched |-> matched, pieces_traitees |-> up[2]]

\* envoi_resolved with the ValueError of the creation logged and the
\* attachments uploaded all the same, to no folder
envoi_resolved_ignoring_error(fds, fs, found, made, atts, fail) ==
    IF found[2] # NoId
    THEN envoi_upload(found[1], fds, TRUE,
            upload_attachments(fs, atts, 1, found[1][found[2]].dossier_drive_id, fail))
    ELSE IF made.raise
    THEN envoi_upload(found[1], fds, FALSE, upload_attachments(fs, atts, 1, NoId, fail))
    ELSE envoi_upload(made.clients, made.folders, FALSE,
            upload_attachments(fs, atts, 1, made.clients[made.client].dossier_drive_id, fail))

\* process_envoi_documents once identify_client_from_email has answered found
\* and, when it found no case, the creation has answered made
envoi_resolved(fds, fs, found, made, atts, fail) ==
    IF found[2] # NoId
    THEN envoi_upload(found[1], fds, TRUE,
            upload_attachments(fs, atts, 1, found[1][found[2]].dossier_drive_id, fail))
    ELSE IF made.raise                                        \* except ValueError
    THEN [status |-> "client_not_identified", clients |-> found[1], folders |-> fds,
          files |-> fs, matched |-> FALSE, pieces_traitees |-> 0]
    ELSE envoi_upload(made.clients, made.folders, FALSE,
            upload_attachments(fs, atts, 1, made.clients[made.client].dossier_drive_id, fail))

envoi_identified(fds, fs, cs, courtier, candidates, cls, atts, lookup_ok, fail, found) ==
    envoi_resolved(fds, fs, found,
        create_client_from_email_and_classification(
            found[1], fds, cs, candidates, courtier, cls, lookup_ok),
        atts, fail)

\* process_envoi_documents(courtier_id, email_data, classification):
\* [status, clients, folders, files, matched, pieces_traitees]; status
\* "success", "client_not_identified" or "raise"; matched says that
\* identify_client_from_email found the case
process_envoi_documents(cl, fds, fs, cs, courtier_id, candidates, cls, atts, lookup_ok, fail) ==
    IF get_courtier_by_id(cs, courtier_id) = NoId
    THEN [status |-> "raise", clients |-> cl, folders |-> fds, files |-> fs,
          matched |-> FALSE, pieces_traitees |-> 0]
    ELSE envoi_identified(fds, fs, cs, courtier_id, candidates, cls, atts, lookup_ok, fail,
            identify_client_from_email(cl, candidates, courtier_id))

\* one run of process_envoi_documents that returned r
ProcessEnvoiDocumentsReturns(courtier_id, msg, cls, r) ==
    /\ Len(r.clients) <= MaxClients
    /\ Len(r.folders) <= MaxFolders
    /\ Len(r.files) <= MaxFiles
    /\ clients' = r.clients
    /\ folders' = r.folders
    /\ files' = r.files
    /\ last' = [op |-> "process_envoi_documents",
                from |-> msg.from, courtier |-> courtier_id,
                named |-> cls.client_nom # NoStr,
                matched |-> r.matched,
                result |-> r.status,
                pieces_traitees |-> r.pieces_traitees,
                changed |-> (r.clients # clients \/ r.folders # folders \/ r.files # files)]
    /\ UNCHANGED <<courtiers, pieces, contexts, outbox, scen>>

ProcessEnvoiDocuments(courtier_id, msg, cls, candidates, lookup_ok, fail) ==
    ProcessEnvoiDocumentsReturns(courtier_id, msg, cls,
        process_envoi_documents(clients, folders, files, courtiers, courtier_id,
                                candidates, cls, msg.attachments, lookup_ok, fail))

\* messages with documents: sent by the customer, or by somebody no case knows
EnvoiMessages ==
    [from : {CUST, CUST2}, to : {<<BROKER1>>}, cc : {<<>>}, body : {<<>>},
     attachments : {<<>>, <<A_CNI>>, <<A_CNI, A_AVIS>>}]

EnvoiStep ==
    \E courtier_id \in {1, 3}, msg \in EnvoiMessages, cls \in Classifications :
      \E candidates \in Orderings(candidate_emails(msg, courtiers[courtier_id])),
         fail \in 0..Len(msg.attachments) :
        ProcessEnvoiDocuments(courtier_id, msg, cls, candidates, TRUE, fail)

AgentOnEnvoiStep ==
    \E msg \in EnvoiMessages, cls \in Classifications :
      \E candidates \in AgentCandidates(msg) :
        ProcessIncomingEmail(msg, cls, candidates, TRUE)

UnnamedStep == EnvoiStep \/ AgentOnEnvoiStep

SpecUnnamed == InitAgent /\ [][UnnamedStep]_vars

\* ------------------------------------------------ cron/check_emails.py
MaxBatch == 2       \* messages of one fetched batch

\* check_new_emails, the body of the loop once the agent has answered r for
\* msg: True counts as a success, an exception as an error, False as neither
count_message(st, msg, r) ==
    [clients  |-> r.clients, folders |-> r.folders, contexts |-> r.contexts,
     handled  |-> Append(st.handled, msg),
     outcomes |-> Append(st.outcomes, r.result),
     processed_success |-> st.processed_success + (IF r.result = "True" THEN 1 ELSE 0),
     processed_error   |-> st.processed_error + (IF r.result = "raise" THEN 1 ELSE 0)]

\* the loop of check_new_emails cut short by the first exception
RECURSIVE process_batch_until_raise(_, _, _, _)
process_batch_until_raise(st, cs, batch, k) ==
    IF k > Len(batch) THEN st
    ELSE LET st2 == count_message(st, batch[k].msg,
                        process_incoming_email(st.clients, st.folders, cs, st.contexts,
                            batch[k].msg, batch[k].cls, batch[k].candidates, TRUE))
         IN IF st2.outcomes[k] = "raise" THEN st2
            ELSE process_batch_until_raise(st2, cs, batch, k + 1)

\* check_new_emails, "for idx, email in enumerate(emails, 1)": the agent is
\* awaited in a try; True counts as a success, an exception as an error, and
\* the loop goes on to the next message either way
RECURSIVE process_batch(_, _, _, _)
process_batch(st, cs, batch, k) ==
    IF k > Len(batch) THEN st
    ELSE process_batch(
            count_message(st, batch[k].msg,
                process_incoming_email(st.clients, st.folders, cs, st.contexts,
                    batch[k].msg, batch[k].cls, batch[k].candidates, TRUE)),
            cs, batch, k + 1)

\* check_new_emails(): paused is "maintenance mode in production", fetch_ok
\* that fetch_new_emails returned the batch (an exception of the fetch is
\* caught by the outer try and the zero statistics are returned)
\* the statistics check_new_emails returns, st being the loop's final state
batch_statistics(st, batch, paused, fetch_ok) ==
    [total_emails      |-> IF paused \/ ~fetch_ok THEN 0 ELSE Len(batch),
     processed_success |-> st.processed_success,
     processed_error   |-> st.processed_error,
     status            |-> IF paused THEN "paused" ELSE "",
     handled  |-> st.handled, outcomes |-> st.outcomes,
     clients  |-> st.clients, folders |-> st.folders, contexts |-> st.contexts]

check_new_emails(cl, fds, cs, ctxs, batch, paused, fetch_ok) ==
    LET st0 == [clients |-> cl, folders |-> fds, contexts |-> ctxs,
                handled |-> <<>>, outcomes |-> <<>>,
                processed_success |-> 0, processed_error |-> 0]
    IN batch_statistics(
          IF paused \/ ~fetch_ok THEN st0 ELSE process_batch(st0, cs, batch, 1),
          batch, paused, fetch_ok)

\* one run of check_new_emails that returned r
CheckNewEmailsReturns(batch, paused, fetch_ok, r) ==
    /\ Len(r.clients) <= MaxClients
    /\ clients' = r.clients
    /\ folders' = r.folders
    /\ contexts' = r.contexts
    /\ last' = [op |-> "check_new_emails", batch |-> batch, paused |-> paused,
                fetch_ok |-> fetch_ok,
                total_emails |-> r.total_emails,
                processed_success |-> r.processed_success,
                processed_error |-> r.processed_error,
                handled |-> r.handled, outcomes |-> r.outcomes]
    /\ UNCHANGED <<courtiers, files, pieces, outbox, scen>>

CheckNewEmails(batch, paused, fetch_ok) ==
    CheckNewEmailsReturns(batch, paused, fetch_ok,
        check_new_emails(clients, folders, courtiers, contexts, batch, paused, fetch_ok))

\* messages of a batch: from the customer's address to broker 1, with and
\* without an attachment, and from an address no case has, to broker 1 or to
\* Leonie alone (no broker addressed)
BatchMessages ==
    [from : {CUST}, to : {<<BROKER1>>}, cc : {<<>>}, body : {<<>>},
     attachments : {<<>>, <<A_CNI>>}]
    \cup
    [from : {CUST_UP}, to : {<<LEONIE>>, <<BROKER1>>}, cc : {<<>>}, body : {<<>>},
     attachments : {<<>>}]

\* each with the classification naming the customer
BatchItems ==
    UNION { { [msg |-> m, cls |-> [client_nom |-> DOE, client_prenom |-> AL],
               candidates |-> cand] : cand \in AgentCandidates(m) } :
            m \in BatchMessages }

Batches == UNION { [1..n -> BatchItems] : n \in 0..MaxBatch }

BatchStep ==
    \E batch \in Batches, paused \in BOOLEAN, fetch_ok \in BOOLEAN :
        CheckNewEmails(batch, paused, fetch_ok)

SpecBatch == InitAgent /\ [][BatchStep]_vars

\* ------------------------------------------ MistralService (services/mistral.py)
max_retries == 3

\* EmailAction values
NOUVEAU_DOSSIER == "NOUVEAU_DOSSIER"
ENVOI_DOCUMENTS == "ENVOI_DOCUMENTS"
QUESTION        == "QUESTION"

\* no EmailClassification (None)
NoClassification == [action |-> "None"]

FALLBACK_RESUME == <<"C","l","a","s","s","i","f","i","c","a","t","i","o","n"," ",
                     "f","a","l","l","b","a","c","k",":"," ">>
SUBJECT_CUT == 100
Min(a, b) == IF a <= b THEN a ELSE b

\* _get_fallback_classification with the heuristic on the attachments left out
get_fallback_classification_question_only(email) ==
    [action    |-> QUESTION,
     resume    |-> FALLBACK_RESUME \o SubSeq(email.subject, 1, Min(SUBJECT_CUT, Len(email.subject))),
     confiance |-> 30,
     details   |-> [sujet |-> "Classification automatique echouee", urgent |-> FALSE]]

\* _get_fallback_classification(email); confiance in hundredths (0.3 is 30)
get_fallback_classification(email) ==
    [action    |-> IF Len(email.attachments) > 0 THEN ENVOI_DOCUMENTS ELSE QUESTION,
     resume    |-> FALLBACK_RESUME \o SubSeq(email.subject, 1, Min(SUBJECT_CUT, Len(email.subject))),
     confiance |-> 30,
     details   |-> IF Len(email.attachments) > 0
                   THEN [nombre_pieces |-> Len(email.attachments)]
                   ELSE [sujet |-> "Classification automatique echouee", urgent |-> FALSE]]

\* the retry loop of classify_email from attempt on; answers[k] is what the
\* k-th call of the oracle gives: kind "ok" (a JSON text that validates as the
\* EmailClassification answers[k].classification), "malformed"
\* (json.JSONDecodeError), "invalid" (the validation raises) or "transport"
\* (the call raises). sleeps is the list of the delays slept so far.
RECURSIVE classify_attempts(_, _, _, _)
classify_attempts(email, answers, attempt, sleeps) ==
    IF attempt > max_retries
    THEN [classification |-> NoClassification, calls |-> max_retries, sleeps |-> sleeps]
    ELSE IF answers[attempt].kind = "ok"
    THEN [classification |-> answers[attempt].classification, calls |-> attempt,
          sleeps |-> sleeps]
    ELSE IF attempt = max_retries
    THEN [classification |-> get_fallback_classification(email), calls |-> attempt,
          sleeps |-> sleeps]
    ELSE classify_attempts(email, answers, attempt + 1,
            Append(sleeps, IF answers[attempt].kind = "malformed"
                           THEN 1 * attempt ELSE 2 ^ attempt))

\* classify_email as its docstring has it: an exception after the last attempt
classify_email_raising_after_retries(email, answers) ==
    LET r == classify_attempts(email, answers, 1, <<>>) IN
    IF \A k \in 1..max_retries : answers[k].kind # "ok"
    THEN [r EXCEPT !.classification = NoClassification] ELSE r

\* MistralService.classify_email(email, courtier, client_exists):
\* [classification, calls, sleeps]
classify_email(email, answers) == classify_attempts(email, answers, 1, <<>>)

ClassifyEmail(email, answers) ==
    LET r == classify_email(email, answers) IN
    /\ last' = [op |-> "classify_email",
                attachments |-> Len(email.attachments),
                kinds |-> [k \in 1..max_retries |-> answers[k].kind],
                answers |-> answers,
                classification |-> r.classification, calls |-> r.calls, sleeps |-> r.sleeps]
    /\ UNCHANGED <<courtiers, clients, folders, files, pieces, contexts, outbox, scen>>

\* what one call of the oracle can give
OracleAnswers ==
    { [kind |-> k, classification |-> NoClassification] :
        k \in {"malformed", "invalid", "transport"} }
    \cup
    { [kind |-> "ok", classification |-> c] :
        c \in { [action |-> NOUVEAU_DOSSIER, resume |-> <<"n">>, confiance |-> 95,
                 details |-> [client_nom |-> DOE, client_prenom |-> AL]],
                [action |-> ENVOI_DOCUMENTS, resume |-> <<"e">>, confiance |-> 80,
                 details |-> [nombre_pieces |-> 1]] } }

ClassifyMessages ==
    [subject : {<<"D","o","c","s">>}, attachments : {<<>>, <<A_CNI>>, <<A_CNI, A_AVIS>>}]

ClassifyStep ==
    \E email \in ClassifyMessages, answers \in [1..max_retries -> OracleAnswers] :
        ClassifyEmail(email, answers)

SpecClassify == InitSmtp /\ [][ClassifyStep]_vars

\* --------------------------------------- ContextManager (context_manager.py)
MaxClock == 2       \* values of datetime.now() in the model

\* get_dossier_context(client_id): the row of the case, None when it has none
get_dossier_context(ctxs, client_id) ==
    FirstIdx({i \in DOMAIN ctxs : ctxs[i].client_id = client_id})

\* update_dossier_context(client_id, updates)
update_dossier_context(ctxs, client_id, updates) ==
    [i \in DOMAIN ctxs |->
        IF ctxs[i].client_id = client_id
        THEN [ctxs[i] EXCEPT !.summary = updates.summary, !.last_update = updates.last_update]
        ELSE ctxs[i]]

\* MistralService.update_narrative_context(current_summary, new_event): the
\* text the oracle returns, or the failure of the call
update_narrative_context(current_summary, new_event, answer) ==
    [raise |-> ~answer.ok, text |-> answer.text]

\* "Dossier initie. Pas d'historique."
NO_HISTORY == <<"-">>

\* get_or_init_context without its lookup: a narrative is created at every call
init_context_unconditionally(ctxs, client_id) ==
    <<create_dossier_context(ctxs, client_id), Len(ctxs) + 1>>

\* get_or_init_context: <<contexts afterwards, the row>>
get_or_init_context(ctxs, client_id) ==
    LET context == get_dossier_context(ctxs, client_id) IN
    IF context # NoId THEN <<ctxs, context>>
    ELSE <<create_dossier_context(ctxs, client_id), Len(ctxs) + 1>>

\* update_context_with_email catching the failure and storing an empty summary
update_context_with_email_clearing_on_failure(ctxs, client_id, email_content, action_type, answer, now) ==
    LET got == get_or_init_context(ctxs, client_id)
        new == update_narrative_context(got[1][got[2]].summary, email_content, answer)
    IN [raise    |-> FALSE,
        contexts |-> update_dossier_context(got[1], client_id,
                        [summary |-> IF new.raise THEN NoStr ELSE new.text,
                         last_update |-> now])]

\* ContextManager.update_context_with_email(client_id, email_content,
\* action_type): [raise, contexts]
update_context_with_email(ctxs, client_id, email_content, action_type, answer, now) ==
    LET got == get_or_init_context(ctxs, client_id)
        current_summary == IF got[1][got[2]].summary # NoStr
                           THEN got[1][got[2]].summary ELSE NO_HISTORY
        new == update_narrative_context(current_summary,
                    <<action_type>> \o SubSeq(email_content, 1, Min(500, Len(email_content))),
                    answer)
    IN
    IF new.raise THEN [raise |-> TRUE, contexts |-> got[1]]
    ELSE [raise    |-> FALSE,
          contexts |-> update_dossier_context(got[1], client_id,
                          [summary |-> new.text, last_update |-> now])]

\* the narrative of a case as it is stored: its summary and its stamp
NarrativeOf(ctxs, client_id) ==
    LET row == get_dossier_context(ctxs, client_id) IN
    IF row = NoId THEN [summary |-> NoStr, last_update |-> 0]
    ELSE [summary |-> ctxs[row].summary, last_update |-> ctxs[row].last_update]

UpdateContextWithEmail(client_id, email_content, action_type, answer, now) ==
    LET r == update_context_with_email(contexts, client_id, email_content, action_type,
                                       answer, now)
    IN
    /\ contexts' = r.contexts
    /\ last' = [op |-> "update_context_with_email", client |-> client_id,
                oracle_ok |-> answer.ok, raise |-> r.raise,
                had_row |-> get_dossier_context(contexts, client_id) # NoId,
                before |-> NarrativeOf(contexts, client_id)]
    /\ UNCHANGED <<courtiers, clients, folders, files, pieces, outbox, scen>>

NarrativeTexts == {<<"s","1">>, <<"s","2">>}

MemoryStep ==
    \E client_id \in 1..MaxClients, ok \in BOOLEAN, text \in NarrativeTexts, now \in 1..MaxClock :
        UpdateContextWithEmail(client_id, <<"b","o","d","y">>, QUESTION,
                               [ok |-> ok, text |-> text], now)

SpecMemory == InitSmtp /\ [][MemoryStep]_vars

\* ------------------------ two triggers in one event loop (backend/main.py)
\* check_new_emails is started by the scheduler's check_emails_job (1) and by
\* GET /cron/check-emails (2), both coroutines of one asyncio event loop: a
\* coroutine keeps the loop until it awaits. In this specification scen is
\* the loop: running is the trigger that holds it (0: none), temp the files of
\* the shared temp directory by name, writers the position of each trigger's
\* process_attachments call, expected the pages handed to update_file or
\* upload_file so far, by master type.
Triggers == {1, 2}
A_AVIS_2 == Att(AVIS_PDF, P2, AVIS_IMPOT)      \* the avis.pdf of another message
LoopAttachments == {A_AVIS, A_AVIS_2, A_CNI}
LoopTypes == {get_master_type(a.raw) : a \in LoopAttachments}
NoAtt == Att(NoStr, NoStr, INCONNU)
IdleWriter == [pc |-> "idle", att |-> NoAtt, type |-> NoStr, local |-> NoStr,
               existing |-> NoId, downloaded |-> NoStr]

\* the pages of the master files of type mt in the folder of case c
MasterFiles(fs, c, mt) ==
    {i \in 1..Len(fs) : fs[i].folder = clients[c].dossier_drive_id
                          /\ fs[i].name = master_name(mt, clients[c])}
RECURSIVE PagesOf(_, _)
PagesOf(fs, S) ==
    IF S = {} THEN 0
    ELSE LET i == CHOOSE i \in S : TRUE IN Len(fs[i].pages) + PagesOf(fs, S \ {i})

\* the loop after a DriveManager call, were the call awaited: given away
after_drive_call_awaited(w) == 0
\* the loop after a DriveManager call: the methods are plain def, the calling
\* coroutine keeps the loop
after_drive_call(w) == w

\* process_attachments is called for case c with one attachment: the temp file
\* is written, then analyze_document_nature is awaited
CallProcessAttachments(w, c, att) ==
    /\ scen.running = 0
    /\ scen.writers[w].pc = "idle"
    /\ scen' = [scen EXCEPT !.temp[att.filename] = att.content,
                            !.writers[w] = [IdleWriter EXCEPT !.pc = "analyze", !.att = att]]
    /\ last' = [op |-> "process_attachments_call", writer |-> w, client |-> c]
    /\ UNCHANGED <<courtiers, clients, folders, files, pieces, contexts, outbox>>

\* the analysis has answered: the group is consolidated from the temp file as
\* it is now, the master file is looked for and downloaded
ReconcileRead(w, c) ==
    LET me       == scen.writers[w]
        mt       == get_master_type(me.att.raw)
        existing == find_file_by_name(files, master_name(mt, clients[c]),
                                      clients[c].dossier_drive_id, TRUE, FALSE)
    IN
    /\ scen.running = 0
    /\ me.pc = "analyze"
    /\ scen' = [scen EXCEPT
                  !.running = after_drive_call(w),
                  !.writers[w] = [me EXCEPT
                      !.pc = "write", !.type = mt,
                      !.local = scen.temp[me.att.filename],
                      !.existing = existing,
                      !.downloaded = IF existing # NoId THEN download_file(files, existing)
                                     ELSE NoStr]]
    /\ last' = [op |-> "reconcile_read", writer |-> w, client |-> c]
    /\ UNCHANGED <<courtiers, clients, folders, files, pieces, contexts, outbox>>

\* update_file with the merge of what was downloaded, or upload_file; then
\* the registration; process_attachments returns
ReconcileWrite(w, c) ==
    LET me     == scen.writers[w]
        files2 == IF me.existing # NoId
                  THEN update_file(files, me.existing, merge_pdfs(<<me.downloaded, me.local>>))
                  ELSE upload_file(files, me.local, clients[c].dossier_drive_id,
                                   master_name(me.type, clients[c]))
        file_id == IF me.existing # NoId THEN me.existing ELSE Len(files) + 1
        reg    == register_in_database(pieces, c, me.type, file_id, TRUE, FALSE)
    IN
    /\ scen.running \in {0, w}
    /\ me.pc = "write"
    /\ Len(files2) <= MaxFiles
    /\ Len(files2[file_id].pages) <= MaxPages
    /\ Len(reg[1]) <= MaxPieces
    /\ files' = files2
    /\ pieces' = reg[1]
    /\ scen' = [scen EXCEPT !.running = 0,
                            !.writers[w] = IdleWriter,
                            !.expected[me.type] = @ + Len(me.local)]
    /\ last' = [op |-> "reconcile_write", writer |-> w, client |-> c]
    /\ UNCHANGED <<courtiers, clients, folders, contexts, outbox>>

EventLoopStep ==
    \E w \in Triggers :
        \/ \E att \in LoopAttachments : CallProcessAttachments(w, 1, att)
        \/ ReconcileRead(w, 1)
        \/ ReconcileWrite(w, 1)

InitEventLoop ==
    /\ courtiers = SeedCourtiers
    /\ clients = SeedClients
    /\ folders = SeedFolders
    /\ \/ files = <<>> /\ pieces = <<>>
       \/ /\ files = << [folder |-> 2, name |-> master_name(AVIS_IMPOT, SeedClients[1]),
                         pages |-> P1] >>
          /\ pieces = << [client_id |-> 1, type_piece_id |-> type_id_of[AVIS_IMPOT],
                          fichier_drive_id |-> 1, nature |-> NoStr,
                          fichier_hash |-> calculate_file_hash(P1)] >>
    /\ contexts = <<>>
    /\ outbox = <<>>
    /\ last = [op |-> "init"]
    /\ scen = [step |-> 0, client |-> 1, type |-> NoStr, sum |-> 0,
               running |-> 0,
               temp |-> [fn \in {AVIS_PDF, CNI_PDF} |-> NoStr],
               writers |-> [w \in Triggers |-> IdleWriter],
               expected |-> [mt \in LoopTypes |-> PagesOf(files, MasterFiles(files, 1, mt))]]

SpecEventLoop == InitEventLoop /\ [][EventLoopStep]_vars

\* ------------------------------- a group's failure and the batch summary
\* the faults after which process_attachments leaves a group out of what it
\* returns (document_orchestrator.py, except Exception of the group loop)
GroupFailureKinds == {"find", "download", "merge", "update", "upload"}

group_failed(fault) == fault.kind \in GroupFailureKinds

\* the customer's messages with documents, to broker 1
SummaryMessages ==
    [from : {CUST}, to : {<<BROKER1>>}, cc : {<<>>, <<BROKER2>>}, body : {<<>>},
     attachments : {<<A_CNI>>, <<A_CNI, A_AVIS>>}]

OneMessageBatch(msg) ==
    <<[msg |-> msg, cls |-> [client_nom |-> DOE, client_prenom |-> AL],
       candidates |-> <<>>]>>

SummaryOf(msg, fault, r) ==
    [msg |-> msg, fault |-> fault,
     outcome |-> r.outcomes[1],
     statistics |-> [total_emails |-> r.total_emails,
                     processed_success |-> r.processed_success,
                     processed_error |-> r.processed_error]]

\* one run of check_new_emails over the one message msg, which returned r,
\* while the storage fails as fault says; scen keeps the summary of this run
\* and of the run before it
CheckOneEmailReturns(msg, fault, r) ==
    /\ Len(r.clients) <= MaxClients
    /\ clients' = r.clients
    /\ folders' = r.folders
    /\ contexts' = r.contexts
    /\ last' = [op |-> "check_new_emails", batch |-> OneMessageBatch(msg), paused |-> FALSE,
                fetch_ok |-> TRUE,
                total_emails |-> r.total_emails,
                processed_success |-> r.processed_success,
                processed_error |-> r.processed_error,
                handled |-> r.handled, outcomes |-> r.outcomes]
    /\ scen' = [step |-> 0, client |-> NoId, type |-> NoStr, sum |-> 0,
                summary |-> SummaryOf(msg, fault, r),
                before  |-> IF "summary" \in DOMAIN scen THEN <<scen.summary>> ELSE <<>>]
    /\ UNCHANGED <<courtiers, files, pieces, outbox>>

CheckOneEmail(msg, fault) ==
    CheckOneEmailReturns(msg, fault,
        check_new_emails(clients, folders, courtiers, contexts, OneMessageBatch(msg),
                         FALSE, TRUE))

SummaryStep ==
    \E msg \in SummaryMessages :
      \E fault \in Faults(msg.attachments) :
        CheckOneEmail(msg, fault)

InitSummary ==
    /\ courtiers = SeedCourtiers
    /\ clients = <<SeedClients[1]>>
    /\ folders = SeedFolders
    /\ files = <<>>
    /\ pieces = <<>>
    /\ contexts = <<>>
    /\ outbox = <<>>
    /\ last = [op |-> "init"]
    /\ scen = NoScen

SpecSummary == InitSummary /\ [][SummaryStep]_vars

\* ------------------------------------------- the resolver, call after call
CUST3 == <<"e","@","y">>        \* the primary address of a second case
CUST4 == <<"f","@","y">>        \* an address a case may list as secondary
NEWCOMER == <<"n","@","y">>     \* an address no case has

\* the cases of broker 1: Doe Al (primary CUST) and Doe Bo (primary CUST3),
\* each with the secondary addresses the table gives it
ResolverCase(prenom, email_principal, emails_secondaires) ==
    [courtier_id |-> 1, nom |-> DOE, prenom |-> prenom, email_principal |-> email_principal,
     emails_secondaires |-> emails_secondaires, dossier_drive_id |-> NoId]

ResolverTables ==
    { <<ResolverCase(AL, CUST, s1), ResolverCase(BO, CUST3, s2)>> :
        s1 \in {<<>>, <<CUST2>>}, s2 \in {<<>>, <<CUST4>>, <<CUST2>>} }

ResolverMessages ==
    [from : {CUST, CUST2, CUST4, NEWCOMER},
     to   : {<<BROKER1>>},
     cc   : {<<>>, <<CUST>>, <<CUST3>>},
     body : {<<>>, <<CUST4>>},
     attachments : {<<>>}]

\* one call of identify_client_from_email(email, courtier) that returned r
IdentifyClientFromEmailReturns(msg, courtier_id, candidates, r) ==
    /\ clients' = r[1]
    /\ last' = [op |-> "identify_client_from_email", msg |-> msg, courtier |-> courtier_id,
                candidates |-> candidates, client |-> r[2], before |-> clients]
    /\ UNCHANGED <<courtiers, folders, files, pieces, contexts, outbox, scen>>

IdentifyClientFromEmail(msg, courtier_id, candidates) ==
    IdentifyClientFromEmailReturns(msg, courtier_id, candidates,
        identify_client_from_email(clients, candidates, courtier_id))

ResolverStep ==
    \E msg \in ResolverMessages :
      \E candidates \in Orderings(candidate_emails(msg, courtiers[1])) :
        IdentifyClientFromEmail(msg, 1, candidates)

InitResolver ==
    /\ courtiers = SeedCourtiers
    /\ clients \in ResolverTables
    /\ folders = SeedFolders
    /\ files = <<>>
    /\ pieces = <<>>
    /\ contexts = <<>>
    /\ outbox = <<>>
    /\ last = [op |-> "init"]
    /\ scen = NoScen

SpecResolver == InitResolver /\ [][ResolverStep]_vars

\* the addresses of a case: its primary and its secondary addresses
AddressesOfCase(cl, c) ==
    {cl[c].email_principal} \cup SeqToSet(cl[c].emails_secondaires)

NoDuplicates(s) == \A i, j \in DOMAIN s : s[i] = s[j] => i = j

\* s is the beginning of t
IsPrefix(s, t) == Len(s) <= Len(t) /\ SubSeq(t, 1, Len(s)) = s

\* ------------------------------------ EmailFetcher (services/email_fetcher.py)
\* The mailbox, the config row last_email_check and the runs of
\* fetch_new_emails are kept in scen. check_new_emails runs the fetch in a
\* thread of its own (asyncio.to_thread), each run over its own IMAP
\* connection, so the IMAP commands of the two triggers interleave.
MaxMail  == 2       \* messages delivered to the mailbox
MaxDay   == 2       \* days of the calendar
MaxCalls == 3       \* calls of fetch_new_emails

IdleFetcher == [pc |-> "idle", ids |-> <<>>, emails |-> <<>>]

\* imap.search(None, '(UNSEEN SINCE "date")'): the numbers of the messages
\* without the flag \Seen whose date is not before the day of last_timestamp
RECURSIVE search_unseen_since(_, _, _)
search_unseen_since(mailbox, date, i) ==
    IF i > Len(mailbox) THEN <<>>
    ELSE (IF ~mailbox[i].seen /\ mailbox[i].date >= date THEN <<i>> ELSE <<>>)
         \o search_unseen_since(mailbox, date, i + 1)

\* imap.fetch(email_id, "(RFC822)") in a mailbox selected read-write: the
\* server sets \Seen on the message
fetch_rfc822(mailbox, email_id) == [mailbox EXCEPT ![email_id].seen = TRUE]

\* a message arrives under the label
Deliver ==
    /\ Len(scen.mailbox) < MaxMail
    /\ scen' = [scen EXCEPT !.mailbox = Append(@, [seen |-> FALSE, date |-> scen.today])]
    /\ last' = [op |-> "deliver"]
    /\ UNCHANGED <<courtiers, clients, folders, files, pieces, contexts, outbox>>

NextDay ==
    /\ scen.today < MaxDay
    /\ scen' = [scen EXCEPT !.today = @ + 1]
    /\ last' = [op |-> "next_day"]
    /\ UNCHANGED <<courtiers, clients, folders, files, pieces, contexts, outbox>>

\* fetch_new_emails, lines 121-165: select, get_config (on the first run the
\* timestamp of seven days ago is stored) and search
FetchSearch(w) ==
    LET last_timestamp == IF scen.last_email_check = 0 THEN 1 ELSE scen.last_email_check IN
    /\ scen.fetchers[w].pc = "idle"
    /\ scen.calls < MaxCalls
    /\ scen' = [scen EXCEPT
                  !.last_email_check = last_timestamp,
                  !.calls = @ + 1,
                  !.fetchers[w] = [pc |-> "fetching",
                                   ids |-> search_unseen_since(scen.mailbox, last_timestamp, 1),
                                   emails |-> <<>>]]
    /\ last' = [op |-> "search", trigger |-> w]
    /\ UNCHANGED <<courtiers, clients, folders, files, pieces, contexts, outbox>>

\* fetch_new_emails, lines 168-183: _fetch_and_parse_email of the next number;
\* ok is that the fetch answered OK and the message was parsed
FetchAndParseEmail(w, ok) ==
    LET f == scen.fetchers[w] IN
    /\ f.pc = "fetching" /\ f.ids # <<>>
    /\ scen' = [scen EXCEPT
                  !.mailbox = IF ok THEN fetch_rfc822(@, Head(f.ids)) ELSE @,
                  !.fetchers[w] = [f EXCEPT !.ids = Tail(@),
                                            !.emails = IF ok THEN Append(@, Head(f.ids)) ELSE @]]
    /\ last' = [op |-> "fetch", trigger |-> w, email_id |-> Head(f.ids), ok |-> ok]
    /\ UNCHANGED <<courtiers, clients, folders, files, pieces, contexts, outbox>>

\* fetch_new_emails, lines 185-196: the timestamp is set to now and the
\* messages are returned to check_new_emails, which hands each to the agent
FetchReturn(w) ==
    LET f == scen.fetchers[w] IN
    /\ f.pc = "fetching" /\ f.ids = <<>>
    /\ scen' = [scen EXCEPT
                  !.last_email_check = scen.today,
                  !.fetchers[w] = IdleFetcher,
                  !.returned = [i \in 1..MaxMail |->
                                  @[i] + (IF i \in SeqToSet(f.emails) THEN 1 ELSE 0)]]
    /\ last' = [op |-> "fetch_new_emails", trigger |-> w, emails |-> f.emails]
    /\ UNCHANGED <<courtiers, clients, folders, files, pieces, contexts, outbox>>

FetchStep ==
    \/ Deliver
    \/ NextDay
    \/ \E w \in Triggers : FetchSearch(w)
    \/ \E w \in Triggers, ok \in BOOLEAN : FetchAndParseEmail(w, ok)
    \/ \E w \in Triggers : FetchReturn(w)

InitFetch ==
    /\ courtiers = SeedCourtiers
    /\ clients = <<SeedClients[1]>>
    /\ folders = SeedFolders
    /\ files = <<>>
    /\ pieces = <<>>
    /\ contexts = <<>>
    /\ outbox = <<>>
    /\ last = [op |-> "init"]
    /\ scen = [step |-> 0, client |-> NoId, type |-> NoStr, sum |-> 0,
               mailbox |-> <<>>, today |-> 1, last_email_check |-> 0, calls |-> 0,
               fetchers |-> [w \in Triggers |-> IdleFetcher],
               returned |-> [i \in 1..MaxMail |-> 0]]

SpecFetch == InitFetch /\ [][FetchStep]_vars

\* the candidate addresses of a message in the order the message lists them:
\* sender, To, Cc, then the addresses of the body, each once
RECURSIVE without_repeats(_, _)
without_repeats(s, seen) ==
    IF s = <<>> THEN <<>>
    ELSE IF Head(s) \in seen THEN without_repeats(Tail(s), seen)
    ELSE <<Head(s)>> \o without_repeats(Tail(s), seen \cup {Head(s)})

ListedCandidates(msg, courtier) ==
    LET all == <<msg.from>> \o msg.to \o msg.cc \o msg.body
        low == [i \in DOMAIN all |-> address_lower(all[i])]
    IN without_repeats(low, excluded_emails(courtier) \cup {NoStr})

\* the case an address belongs to: by primary address, else by secondary
case_of_address(cl, a, courtier_id) ==
    LET c == get_client_by_email(cl, a, courtier_id) IN
    IF c # NoId THEN c
    ELSE FirstIdx({i \in DOMAIN cl : cl[i].courtier_id = courtier_id
                                     /\ a \in SeqToSet(cl[i].emails_secondaires)})

RECURSIVE first_listed_case(_, _, _)
first_listed_case(cl, listed, courtier_id) ==
    IF listed = <<>> THEN NoId
    ELSE LET c == case_of_address(cl, Head(listed), courtier_id) IN
         IF c # NoId THEN c ELSE first_listed_case(cl, Tail(listed), courtier_id)

\* the cases the candidate addresses of a message belong to
MatchedCases(cl, listed, courtier_id) ==
    {case_of_address(cl, listed[k], courtier_id) : k \in DOMAIN listed} \ {NoId}

\* ------------------------------------------- the grouping, list by list
\* attachment lists of up to three attachments, among them two files of one
\* name with different pages
GroupingPool == {A_AVIS, A_AVIS_2, A_CNI, A_SCAN, A_NOTE}
GroupingLists == UNION { [1..n -> GroupingPool] : n \in 1..3 }

\* the groups of process_attachments as the second loop finds them: per group
\* its type and, per path, what the temp file holds when the group is read
grouped_contents(atts) ==
    LET grouped == group_attachments(atts, <<>>) IN
    [k \in 1..Len(grouped) |->
        [type  |-> grouped[k].type,
         files |-> [j \in 1..Len(grouped[k].paths) |-> temp_read(atts, grouped[k].paths[j])]]]

\* the first loop of process_attachments over one attachment list
GroupAttachments(atts) ==
    /\ scen' = [step |-> 0, client |-> NoId, type |-> NoStr, sum |-> 0,
                attachments |-> atts, grouped |-> grouped_contents(atts)]
    /\ last' = [op |-> "group_attachments"]
    /\ UNCHANGED <<courtiers, clients, folders, files, pieces, contexts, outbox>>

GroupingStep == \E atts \in GroupingLists : GroupAttachments(atts)

SpecGrouping == InitDocs /\ [][GroupingStep]_vars

\* the places of the groups: <<group, position>>
GroupSlots(grouped) ==
    UNION { { <<k, j>> : j \in 1..Len(grouped[k].files) } : k \in 1..Len(grouped) }

\* ------------------------------------- one group of two files, observed
\* one message whose two attachments make one group; scen keeps the
\* attachments, what went wrong, the list returned and the files before
OneGroupLists == {atts \in AttLists : Len(atts) = 2 /\ Len(groups_of[atts]) = 1}

LocalObserved(c, atts, fault, r) ==
    [step |-> 0, client |-> c, type |-> NoStr, sum |-> 0,
     group |-> atts, fault |-> fault, processed |-> r.processed, before |-> files]

LocalStep ==
    \E c \in 1..Len(clients), atts \in OneGroupLists :
      \E fault \in DocsInputs(c, atts),
         pickLast \in (IF HasSameNameFiles THEN BOOLEAN ELSE {FALSE}),
         rev \in (IF Len(pieces) > 1 THEN BOOLEAN ELSE {FALSE}) :
        /\ ProcessAttachments(c, atts, fault, pickLast, rev)
        /\ scen' = LocalObserved(c, atts, fault,
                       process_attachments(files, pieces, c, clients[c], atts, fault,
                                           pickLast, rev))

SpecLocal == InitDocs /\ [][LocalStep]_vars

\* the pages file_id has gained since the files were as before
PagesGained(before, fs, file_id) ==
    LET old == IF file_id \in DOMAIN before THEN Len(before[file_id].pages) ELSE 0 IN
    SubSeq(fs[file_id].pages, old + 1, Len(fs[file_id].pages))

\* successive deliveries of one attachment each (a PDF or an image of one
\* type, a PDF of another), observed like LocalStep
AppendPool == {A_AVIS, A_SCAN, A_CNI}

AppendStep ==
    \E c \in 1..Len(clients), a \in AppendPool :
      \E fault \in DocsInputs(c, <<a>>),
         pickLast \in (IF HasSameNameFiles THEN BOOLEAN ELSE {FALSE}),
         rev \in (IF Len(pieces) > 1 THEN BOOLEAN ELSE {FALSE}) :
        /\ ProcessAttachments(c, <<a>>, fault, pickLast, rev)
        /\ scen' = LocalObserved(c, <<a>>, fault,
                       process_attachments(files, pieces, c, clients[c], <<a>>, fault,
                                           pickLast, rev))

SpecAppend == InitDocs /\ [][AppendStep]_vars

\* --------------------------------- the narratives of the cases, over time
\* messages of the customer of the case DOE AL and of a sender no case has
NarrativeMessages ==
    [from : {CUST, CUST_UP}, to : {<<BROKER1>>}, cc : {<<>>}, body : {<<>>},
     attachments : {<<>>, <<A_CNI>>}]

\* the agent handles a message, or the memory of an existing case is folded
NarrativeStep ==
    \/ \E msg \in NarrativeMessages, cls \in Classifications :
         \E candidates \in AgentCandidates(msg) :
           ProcessIncomingEmail(msg, cls, candidates, TRUE)
    \/ \E client_id \in DOMAIN clients, ok \in BOOLEAN, text \in NarrativeTexts,
          now \in 1..MaxClock :
           UpdateContextWithEmail(client_id, <<"b","o","d","y">>, QUESTION,
                                  [ok |-> ok, text |-> text], now)

InitNarrative ==
    /\ courtiers = SeedCourtiers
    /\ clients = SeedClients
    /\ folders = SeedFolders
    /\ files = <<>>
    /\ pieces = <<>>
    /\ contexts = <<>>
    /\ outbox = <<>>
    /\ last = [op |-> "init"]
    /\ scen = NoScen

SpecNarrative == InitNarrative /\ [][NarrativeStep]_vars

NarrativesOf(ctxs, client_id) == {i \in DOMAIN ctxs : ctxs[i].client_id = client_id}

\* ------------------------------ the operations of the pipeline, side by side
\* add_secondary_email(client_id, email) as a step
AddSecondaryEmail(client_id, email) ==
    /\ clients' = add_secondary_email(clients, client_id, email)
    /\ last' = [op |-> "add_secondary_email", client |-> client_id, email |-> email]
    /\ UNCHANGED <<courtiers, folders, files, pieces, contexts, outbox, scen>>

FrameMessages ==
    [from : {CUST2}, to : {<<BROKER1>>}, cc : {<<>>}, body : {<<>>, <<CUST>>},
     attachments : {<<>>}]

\* resolution, secondary-email append, case creation, consolidation with
\* registration, memory fold and draft delivery, in any order
FrameStep ==
    \/ \E msg \in FrameMessages :
         \E candidates \in Orderings(candidate_emails(msg, courtiers[1])) :
           IdentifyClientFromEmail(msg, 1, candidates)
    \/ \E client_id \in DOMAIN clients :
           AddSecondaryEmail(client_id, CUST2)
    \/ \E msg \in FrameMessages :
         \E candidates \in Orderings(candidate_emails(msg, courtiers[1])) :
           ProcessNouveauDossier(1, msg, [client_nom |-> DOE, client_prenom |-> BO],
                                 candidates, TRUE)
    \/ \E c \in 1..Len(clients) :
           ProcessAttachments(c, <<A_CNI>>, NoFault, FALSE, FALSE) /\ UNCHANGED scen
    \/ \E client_id \in DOMAIN clients :
           UpdateContextWithEmail(client_id, <<"b","o","d","y">>, QUESTION,
                                  [ok |-> TRUE, text |-> <<"s","1">>], 1)
    \/ SendEmail(CUST, <<>>, <<>>, TRUE, BROKER1, TRUE)

\* the case DOE AL of broker 1 with its folder; nothing stored yet
InitFrame ==
    /\ courtiers = SeedCourtiers
    /\ clients = <<SeedClients[1]>>
    /\ folders = SeedFolders
    /\ files = <<>>
    /\ pieces = <<>>
    /\ contexts = <<>>
    /\ outbox = <<>>
    /\ last = [op |-> "init"]
    /\ scen = NoScen

SpecFrame == InitFrame /\ [][FrameStep]_vars

\* ------------------------------------- lookups that fail, then the creation
\* get_or_create_folder for a case folder of broker 1, or a delivery of one
\* attachment, each with its lookup answering or failing
LookupStep ==
    \/ \E folder_name \in {client_folder_name(DOE, AL), client_folder_name(DOE, BO)},
          lookup_ok \in BOOLEAN :
           GetOrCreateFolder(folder_name, 1, lookup_ok)
    \/ \E c \in 1..Len(clients), a \in {A_AVIS, A_CNI} :
         \E fault \in {NoFault, [group |-> 1, kind |-> "find"]},
            pickLast \in (IF HasSameNameFiles THEN BOOLEAN ELSE {FALSE}),
            rev \in (IF Len(pieces) > 1 THEN BOOLEAN ELSE {FALSE}) :
           /\ ProcessAttachments(c, <<a>>, fault, pickLast, rev)
           /\ scen' = LocalObserved(c, <<a>>, fault,
                          process_attachments(files, pieces, c, clients[c], <<a>>, fault,
                                              pickLast, rev))

SpecLookup == InitDocs /\ [][LookupStep]_vars

\* ------------------------------------- the shadow draft of the agent, as a step
\* process_incoming_email, "5. Décision Action (Shadow / Whisper)" to the end
\* (lines 153-182), for the case and the broker of lines 130-131:
\* [result, outbox, success, logged]. generate_draft_reply may raise; the draft
\* goes to send_email in shadow mode; log_activity is called when it returned
\* True; the method returns True after the block.
decide_action(ob, client, courtier, draft_ok, smtp_ok) ==
    LET sent == send_email(ob, client.email_principal, <<>>, <<>>, TRUE, courtier.email, smtp_ok)
    IN
    IF ~draft_ok
    THEN [result |-> "raise", outbox |-> ob, success |-> FALSE, logged |-> FALSE]
    ELSE [result |-> "True", outbox |-> sent[1], success |-> sent[2], logged |-> sent[2]]

DecideActionReturns(c, r) ==
    /\ Len(r.outbox) <= MaxOutbox
    /\ outbox' = r.outbox
    /\ last' = [op |-> "decide_action", client |-> c, result |-> r.result,
                success |-> r.success, logged |-> r.logged,
                sent |-> Len(r.outbox) - Len(outbox)]
    /\ UNCHANGED <<courtiers, clients, folders, files, pieces, contexts, scen>>

\* the block for case c and its broker
DecideAction(c, draft_ok, smtp_ok) ==
    DecideActionReturns(c,
        decide_action(outbox, clients[c], courtiers[clients[c].courtier_id], draft_ok, smtp_ok))

\* calls of process_incoming_email, and the block stepped on its own: as the
\* code stands no call of process_incoming_email gets as far as the block
WhisperStep ==
    \/ AgentStep
    \/ \E c \in DOMAIN clients, draft_ok \in BOOLEAN, smtp_ok \in BOOLEAN :
          DecideAction(c, draft_ok, smtp_ok)

SpecWhisper == InitAgent /\ [][WhisperStep]_vars

\* ------------------------------------------------- claims on the consolidation
FilesNamed(folder_id, name) ==
    {i \in 1..Len(files) : files[i].folder = folder_id /\ files[i].name = name}

\* C1: after any sequence of process_attachments calls, whatever the outcome of
\* the storage calls, no folder holds two files of one master name.
C1_OneFilePerMasterName ==
    \A i, j \in 1..Len(files) :
        (files[i].folder = files[j].folder /\ files[i].name = files[j].name) => i = j

\* C2: after two successive messages with one attachment each of one master
\* type for one case, the first of which found neither file nor record of the
\* type, the case's folder holds exactly one file of the type's master name,
\* its page count is the sum of the two documents' page counts, and exactly one
\* Document Record of the case references it.
C2_TwoMessagesOneMaster ==
    scen.step = 2 =>
        LET client == clients[scen.client]
            named  == FilesNamed(client.dossier_drive_id, master_name(scen.type, client))
        IN
        /\ Cardinality(named) = 1
        /\ \A f \in named :
              /\ Len(files[f].pages) = scen.sum
              /\ Cardinality({k \in 1..Len(pieces) :
                    pieces[k].client_id = scen.client /\ pieces[k].fichier_drive_id = f}) = 1

\* the second of the two messages was consolidated into a two-page master file
C2_Witness ==
    /\ scen.step = 2
    /\ scen.sum = 2
    /\ last.op = "process_attachments"
    /\ last.changed

\* the resolved document type of a Document Record: the catalog type id, else
\* the detected nature, else (generic bucket) the master file id
ResolvedType(p) ==
    IF p.type_piece_id # NoId THEN <<"type", p.type_piece_id>>
    ELSE IF p.nature # NoStr THEN <<"nature", p.nature>>
    ELSE <<"file", p.fichier_drive_id>>

\* C3: a case never has two Document Records of one resolved document type.
C3_OneRecordPerType ==
    \A i, j \in 1..Len(pieces) :
        (pieces[i].client_id = pieces[j].client_id
            /\ ResolvedType(pieces[i]) = ResolvedType(pieces[j])) => i = j

C7_ShadowOnlyToShadowRecipient ==
    (last.op = "send_email" /\ last.is_shadow_mode /\ last.returned) =>
        SeqToSet(outbox[Len(outbox)].recipients) =
            { IF last.shadow_recipient # NoStr THEN last.shadow_recipient ELSE ADMIN_EMAIL }

\* ----------------------------------------------------- claims on the agent
\* an address of an active broker, read off the courtiers table
KnownBroker(addr) ==
    \E i \in DOMAIN courtiers : courtiers[i].actif /\ courtiers[i].email = addr

LastIsMessage == last.op \in {"process_incoming_email", "process_nouveau_dossier"}

\* C5: when the sender of a message is a known active broker, the case the
\* message is resolved to, or the case created for it, never has the sender's
\* address as its primary email.
C5_SenderBrokerNeverCustomer ==
    (LastIsMessage /\ KnownBroker(last.from) /\ last.client # NoId) =>
        address_lower(clients[last.client].email_principal) # address_lower(last.from)

\* the cases of broker 1, all of customer Doe in the messages of CaseMessages
CasesOfBroker1 == {i \in DOMAIN clients : clients[i].courtier_id = 1}

\* C6: after a message about one customer of one broker was processed with a
\* customer name extracted (the job answered "success" or "exists"; the agent
\* resolved the broker), exactly one case exists for that customer.
C6_OneCasePerCustomer ==
    (\/ last.op = "process_nouveau_dossier" /\ last.result \in {"success", "exists"}
     \/ last.op = "process_incoming_email" /\ last.named /\ last.courtier = 1)
        => Cardinality(CasesOfBroker1) = 1

\* neither the sender nor a To/Cc address is a known broker, and the sender is
\* not the primary address of a case
NoBrokerNoCustomer ==
    /\ last.op = "process_incoming_email"
    /\ ~last.sender_known
    /\ \A a \in {last.from} \cup SeqToSet(last.to) \cup SeqToSet(last.cc) : ~KnownBroker(a)

\* C8: a message with no known broker among sender, To and Cc, whose sender is
\* not a known customer, ends in Abandoned: process_incoming_email returns
\* False, the oracle was not called, and no table was changed.
C8_NoBrokerAbandoned ==
    NoBrokerNoCustomer =>
        /\ last.result = "False"
        /\ ~last.oracle
        /\ ~last.changed
        /\ last.trace[Len(last.trace)] = "Abandoned"

\* a message addressed to the inactive broker only was abandoned
C8_Witness ==
    /\ NoBrokerNoCustomer
    /\ last.to = <<BROKER3>>
    /\ last.cc = <<>>
    /\ last.result = "False"

Occurrences(trace, state) == Cardinality({k \in DOMAIN trace : trace[k] = state})

\* C10: for a message whose broker and case are resolved, UpdateMemory is
\* entered exactly once, ProcessAttachments is entered exactly when there are
\* attachments, and a message without attachments goes on to Draft&Deliver and
\* returns True.
C10_MemoryAlwaysAttachmentsIfAny ==
    (last.op = "process_incoming_email" /\ last.client # NoId /\ last.courtier # NoId) =>
        /\ Occurrences(last.trace, "UpdateMemory") = 1
        /\ (Occurrences(last.trace, "ProcessAttachments") > 0) = last.has_attachments
        /\ (~last.has_attachments =>
                /\ Occurrences(last.trace, "Draft&Deliver") = 1
                /\ last.result = "True")

\* ------------------------------------------------------ claims on the batch
\* C11: every message of a fetched batch is handed to process_incoming_email
\* exactly once and in fetch order, whatever the earlier messages of the batch
\* returned or raised.
C11_EveryMessageHandedOnce ==
    (last.op = "check_new_emails" /\ ~last.paused /\ last.fetch_ok) =>
        last.handled = [i \in 1..Len(last.batch) |-> last.batch[i].msg]

\* the first message of a batch of two raised and the second was handled
C11_Witness ==
    /\ last.op = "check_new_emails"
    /\ Len(last.batch) = 2
    /\ Len(last.outcomes) = 2
    /\ last.outcomes[1] = "raise"
    /\ last.outcomes[2] = "False"

\* C12: on return of check_new_emails every fetched message is counted as
\* succeeded or as failed: processed_success + processed_error = total_emails.
C12_StatisticsAccountForAll ==
    last.op = "check_new_emails" =>
        last.processed_success + last.processed_error = last.total_emails

\* ------------------------------------------------- claims on the classification
\* the first attempt of the call whose answer parsed and validated (0: none)
FirstOk(kinds) ==
    IF \E k \in DOMAIN kinds : kinds[k] = "ok"
    THEN CHOOSE k \in DOMAIN kinds : kinds[k] = "ok" /\ \A j \in 1..(k - 1) : kinds[j] # "ok"
    ELSE 0

OracleUnreachable ==
    /\ last.op = "classify_email"
    /\ \A k \in DOMAIN last.kinds : last.kinds[k] = "transport"

\* C14: when the oracle is unreachable, the classification of a message with
\* N >= 1 attachments is ENVOI_DOCUMENTS with confidence at most 0.5 and a
\* detail count of N; of a message without attachments, QUESTION with the
\* same confidence.
C14_FallbackByAttachments ==
    OracleUnreachable =>
        /\ last.classification.confiance <= 50
        /\ IF last.attachments >= 1
           THEN /\ last.classification.action = ENVOI_DOCUMENTS
                /\ last.classification.details.nombre_pieces = last.attachments
           ELSE /\ last.classification.action = QUESTION
                /\ last.classification.confiance = 30

\* the oracle was unreachable for a message with two attachments
C14_Witness ==
    /\ OracleUnreachable
    /\ last.attachments = 2
    /\ last.classification.action = ENVOI_DOCUMENTS

\* ------------------------------------------------------ claims on the memory
\* C15: if the oracle call fails during update_context_with_email, the stored
\* narrative of the case (summary and last-update stamp) is after the call
\* what it was before the call.
C15_FailedFoldKeepsNarrative ==
    (last.op = "update_context_with_email" /\ ~last.oracle_ok) =>
        NarrativeOf(contexts, last.client) = last.before

\* the oracle failed on a case that had a narrative
C15_Witness ==
    /\ last.op = "update_context_with_email"
    /\ ~last.oracle_ok
    /\ last.raise
    /\ last.had_row
    /\ last.before.summary # NoStr

\* C16: within one call of process_attachments that reached the loop over the
\* groups, whatever went wrong in one group, every other group whose
\* attachments are of supported formats is consolidated: the returned list has
\* an entry of the group's type, and the entry's file lies in the case's
\* folder under the type's master name and holds the group's pages in a row
\* (a later group of the call may have been appended after them).
C16_OtherGroupsStillConsolidated ==
    (last.op = "process_attachments" /\ "atts" \in DOMAIN scen /\ ~scen.raised
        /\ clients[scen.client].dossier_drive_id # NoId) =>
        LET groups == groups_of[scen.atts]
            client == clients[scen.client]
        IN
        \A k \in 1..Len(groups) :
            LET local == consolidated(scen.atts, k, "none") IN
            (k # scen.fault.group /\ local.kind = "pdf") =>
                \E i \in 1..Len(scen.processed) :
                    LET e == scen.processed[i] IN
                    /\ e.type = groups[k].type
                    /\ e.file_id \in 1..Len(files)
                    /\ files[e.file_id].folder = client.dossier_drive_id
                    /\ files[e.file_id].name = master_name(groups[k].type, client)
                    /\ \E o \in 0..(Len(files[e.file_id].pages) - Len(local.pages)) :
                          SubSeq(files[e.file_id].pages, o + 1, o + Len(local.pages))
                              = local.pages

\* the upload of the first group's master file failed, the second group is returned
C16_Witness ==
    /\ last.op = "process_attachments"
    /\ "atts" \in DOMAIN scen
    /\ scen.fault = [group |-> 1, kind |-> "upload"]
    /\ Len(scen.processed) = 1
    /\ scen.processed[1].type = groups_of[scen.atts][2].type

\* C17: a call of process_attachments for a case without storage folder
\* raises: it does not return normally.
C17_FolderlessCaseRaises ==
    (last.op = "process_attachments" /\ clients[last.client].dossier_drive_id = NoId) =>
        last.raised

C20_GetOrCreateFolderIdempotent ==
    last.op = "get_or_create_folder" =>
        /\ ("previous" \in DOMAIN scen /\ scen.previous.op = "get_or_create_folder"
                /\ scen.previous.name = last.name /\ scen.previous.parent = last.parent) =>
                scen.previous.id = last.id
        /\ \A i, j \in DOMAIN folders :
                (folders[i].name = folders[j].name /\ folders[i].parent = folders[j].parent) =>
                    i = j

\* C21: with the two triggers running in one event loop, no two
\* reconciliations of one (case, master type) overlap: never are two writers
\* of one type both between their read and their write; so no type has a
\* second master file, and while no writer of a type is between read and
\* write the master file holds every page handed to storage for the type.
C21_ReconciliationsNeverOverlap ==
    "writers" \in DOMAIN scen =>
        /\ \A w1, w2 \in Triggers :
              (w1 # w2 /\ scen.writers[w1].pc = "write" /\ scen.writers[w2].pc = "write") =>
                  scen.writers[w1].type # scen.writers[w2].type
        /\ \A mt \in LoopTypes :
              /\ Cardinality(MasterFiles(files, 1, mt)) <= 1
              /\ (\A w \in Triggers : ~(scen.writers[w].pc = "write"
                                          /\ scen.writers[w].type = mt)) =>
                     PagesOf(files, MasterFiles(files, 1, mt)) = scen.expected[mt]

\* one trigger is between read and write of a type while the other's call
\* for the same type is suspended in the analysis
C21_Witness ==
    /\ "writers" \in DOMAIN scen
    /\ scen.writers[1].pc = "write"
    /\ scen.writers[2].pc = "analyze"
    /\ scen.writers[1].type = get_master_type(scen.writers[2].att.raw)

\* C22: every document process_attachments returns as processed has its
\* Document Record: no returned entry is without the id of a pieces_dossier row.
C22_ReturnedDocumentsAreRegistered ==
    (last.op = "process_attachments" /\ "atts" \in DOMAIN scen) =>
        \A i \in 1..Len(scen.processed) :
            /\ scen.processed[i].db_id # NoId
            /\ \E k \in 1..Len(pieces) :
                  /\ pieces[k].client_id = scen.client
                  /\ pieces[k].fichier_drive_id = scen.processed[i].file_id

C24_SecondaryEmailsOnlyGrow ==
    last.op = "identify_client_from_email" =>
        /\ \A c \in DOMAIN last.before :
              /\ IsPrefix(last.before[c].emails_secondaires, clients[c].emails_secondaires)
              /\ NoDuplicates(clients[c].emails_secondaires)
        /\ (last.client # NoId
              /\ address_lower(last.msg.from) \notin AddressesOfCase(last.before, last.client)) =>
                 address_lower(last.msg.from) \in SeqToSet(clients[last.client].emails_secondaires)

\* C25: after process_incoming_email of a message whose sender S no case and
\* no broker has, addressed to the active broker B, with a classification that
\* names the customer, a case with primary address S exists, whatever the Cc
\* and the body, and a shadow draft was delivered to B with S as the original
\* recipient.
C25_NewCaseKeepsSenderAddress ==
    (last.op = "process_incoming_email"
        /\ last.from \in {CUST, CUST_UP} /\ ~last.sender_known
        /\ last.to = <<BROKER1>> /\ last.named) =>
            /\ \E c \in DOMAIN clients :
                  clients[c].email_principal \in {last.from, address_lower(last.from)}
            /\ \E k \in DOMAIN outbox :
                  /\ outbox[k].shadow
                  /\ outbox[k].recipients = <<BROKER1>>
                  /\ outbox[k].original_to \in {last.from, address_lower(last.from)}

\* C26: a message that one call of fetch_new_emails returned is returned by
\* no other call: over all the runs every message is handed to the pipeline
\* at most once.
C26_NoMessageFetchedTwice ==
    "returned" \in DOMAIN scen =>
        \A i \in 1..Len(scen.mailbox) : scen.returned[i] <= 1

\* C27: identify_client_from_email returns the case of the first candidate
\* address, in the order sender, To, Cc, body, that a case has as primary or,
\* failing that, as secondary address: the result is a function of the
\* message and of the stored cases.
C27_EarlierCandidateWins ==
    last.op = "identify_client_from_email" =>
        last.client = first_listed_case(last.before,
                          ListedCandidates(last.msg, courtiers[last.courtier]), last.courtier)

\* C28: when the candidate addresses of a message belong to more than one
\* case, identify_client_from_email returns no case.
C28_AmbiguityIsNotFound ==
    (last.op = "identify_client_from_email"
        /\ Cardinality(MatchedCases(last.before,
               ListedCandidates(last.msg, courtiers[last.courtier]), last.courtier)) > 1) =>
            last.client = NoId

\* C29: the grouping drops nothing: the groups hold as many files as the
\* message has attachments, and every content is found in the group of its
\* type as many times as attachments of that type carry it, also when two
\* attachments have the same filename.
C29_GroupingKeepsEveryAttachment ==
    "grouped" \in DOMAIN scen =>
        LET atts == scen.attachments
            grouped == scen.grouped
        IN
        /\ Cardinality(GroupSlots(grouped)) = Len(atts)
        /\ \A i \in 1..Len(atts) :
              Cardinality({ s \in GroupSlots(grouped) :
                              /\ grouped[s[1]].type = get_master_type(atts[i].raw)
                              /\ grouped[s[1]].files[s[2]] = atts[i].content })
              = Cardinality({ h \in 1..Len(atts) :
                              /\ get_master_type(atts[h].raw) = get_master_type(atts[i].raw)
                              /\ atts[h].content = atts[i].content })

\* C30: a group of two files reported as processed stands for two files
\* merged, and the master file has gained the pages of both files, each once,
\* in one order or the other, also when a conversion yields nothing or the
\* local merge fails.
C30_ReportedFilesAreInTheDocument ==
    "group" \in DOMAIN scen =>
        \A i \in 1..Len(scen.processed) :
            /\ scen.processed[i].nfiles = Len(scen.group)
            /\ PagesGained(scen.before, files, scen.processed[i].file_id)
                  \in { scen.group[1].content \o scen.group[2].content,
                        scen.group[2].content \o scen.group[1].content }

\* C31: the master file is append-only: after a delivery every file that
\* existed holds the pages it had, in their order, at its beginning, and the
\* master file a group was appended to holds them followed by the newly
\* consolidated pages of the group.
C31_MasterFileAppendOnly ==
    "group" \in DOMAIN scen =>
        /\ \A f \in DOMAIN scen.before :
              /\ f \in DOMAIN files
              /\ IsPrefix(scen.before[f].pages, files[f].pages)
        /\ \A i \in 1..Len(scen.processed) :
              LET f == scen.processed[i].file_id IN
              f \in DOMAIN scen.before =>
                  files[f].pages = scen.before[f].pages
                                      \o consolidated(scen.group, 1, scen.fault.kind).pages

\* a delivery was appended to a master file that held pages
C31_Witness ==
    /\ "group" \in DOMAIN scen
    /\ scen.fault = NoFault
    /\ \E i \in 1..Len(scen.processed) :
          /\ scen.processed[i].file_id \in DOMAIN scen.before
          /\ scen.before[scen.processed[i].file_id].pages # <<>>
          /\ Len(files[scen.processed[i].file_id].pages)
                > Len(scen.before[scen.processed[i].file_id].pages)

\* C32: within one call of classify_email the delays slept between the
\* attempts are strictly increasing, whatever the kinds of the failures, and
\* no delay is slept after the last attempt.
C32_BackoffIncreasing ==
    last.op = "classify_email" =>
        /\ Len(last.sleeps) = last.calls - 1
        /\ \A k \in 1..(Len(last.sleeps) - 1) : last.sleeps[k] < last.sleeps[k + 1]

\* C33: in every reachable state a case has at most one narrative, whether
\* the narrative was created with the case or by the first fold, and however
\* many folds followed.
C33_OneNarrativePerCase ==
    \A c \in DOMAIN clients : Cardinality(NarrativesOf(contexts, c)) <= 1

\* a fold found the narrative of the case and the case still has exactly one
C33_Witness ==
    /\ last.op = "update_context_with_email"
    /\ last.had_row
    /\ Cardinality(NarrativesOf(contexts, last.client)) = 1

\* C34: no operation of the pipeline changes the storage-folder reference of
\* a case that exists: every step leaves every case in the table with the
\* dossier_drive_id it had.
C34_FolderReferenceNeverChanges ==
    [][\A c \in DOMAIN clients :
          /\ c \in DOMAIN clients'
          /\ clients'[c].dossier_drive_id = clients[c].dossier_drive_id]_vars

\* an address was appended to the secondary list of the case DOE AL, which
\* has the folder it was created with
C34_Witness ==
    /\ last.op = "add_secondary_email"
    /\ clients[1].emails_secondaires # <<>>
    /\ clients[1].dossier_drive_id = SeedClients[1].dossier_drive_id

\* C35: a lookup that fails leads to no duplicate: after get_or_create_folder
\* whose listing failed, the folder returned is the only one of its name
\* under the parent, and after a delivery whose master-file lookup failed,
\* the file the group went to is the only one of its name in the case folder.
C35_FailedLookupMakesNoDuplicate ==
    /\ (last.op = "get_or_create_folder" /\ ~last.lookup_ok) =>
          \A i \in DOMAIN folders :
              (folders[i].name = last.name /\ folders[i].parent = last.parent) => i = last.id
    /\ (last.op = "process_attachments" /\ "group" \in DOMAIN scen /\ scen.fault.kind = "find") =>
          \A k \in 1..Len(scen.processed) :
              \A i \in DOMAIN files :
                  (files[i].name = files[scen.processed[k].file_id].name
                      /\ files[i].folder = files[scen.processed[k].file_id].folder) =>
                          i = scen.processed[k].file_id

\* C36: two different cases never have the same storage folder, also when
\* their customers have the same last and first name.
C36_CasesNeverShareFolder ==
    \A i, j \in DOMAIN clients :
        (i # j /\ clients[i].dossier_drive_id # NoId) =>
            clients[i].dossier_drive_id # clients[j].dossier_drive_id


\* C37: for one case, two different master types never have the same master
\* file name, so two groups of different types of one delivery never go to
\* the same master file.
C37_MasterNameInjective ==
    "atts" \in DOMAIN scen =>
        \A i, j \in 1..Len(scen.processed) :
            scen.processed[i].type # scen.processed[j].type =>
                /\ master_name(scen.processed[i].type, clients[scen.client])
                      # master_name(scen.processed[j].type, clients[scen.client])
                /\ scen.processed[i].file_id # scen.processed[j].file_id


====
